---- MODULE Spec2Model ----
(***************************************************************************)
(* Availability and booking engine of the AI receptionist.                 *)
(*                                                                         *)
(* Salon domain   : src/agents/salon.py over src/memory/salon_service.py   *)
(* LangGraph salon: src/temporary.py                                       *)
(* Hospital domain: src/agents/hospital.py over                            *)
(*                  src/memory/hospital_service.py and the schema of       *)
(*                  src/migrations/versions/002_hospital_schema_raw_sql.py *)
(*                                                                         *)
(* Every tool call is an asyncio task; it can be suspended at each awaited *)
(* database call, so a tool call is a sequence of atomic steps, one per    *)
(* database statement that reads or writes a table that changes.  Lookups  *)
(* in tables no tool writes (stylists, services, shifts, doctors) are      *)
(* folded into the step that precedes them.  Database calls succeed here   *)
(* except where a unique index refuses a write.                            *)
(*                                                                         *)
(* Times of day are minutes since midnight, dates are day numbers.         *)
(***************************************************************************)
EXTENDS Integers, Sequences, FiniteSets, TLC

VARIABLES
    bookings,     \* salon table bookings: booking_id = index in the sequence
    customers,    \* salon table customers: customer_id = index, value = phone_number
    now,          \* wall clock, minutes since midnight of Today
    pc,           \* per task: the statement its tool call is suspended at
    req,          \* per task: the locals of its tool call
    result,       \* per task: the text class its last tool call returned
    offered,      \* per task: the slots its last availability answer named
    wrote,        \* per task: id of the row its current/last tool call wrote (0: none)
    calls,        \* tool calls started so far
    agent,        \* the program that serves the callers
    appointment,      \* hospital table appointment: app_id = index in the sequence
    patient_account,  \* hospital table patient_account: account_id = index, value = mobile_no
    patient,          \* hospital table patient: pt_id = index, value = account_id
    db_up,            \* the pool is there and its queries succeed
    probe,            \* health check: what each component check did last time
    health,           \* health check: the last result of perform_health_check
    status_code,      \* health check: the HTTP code computed from health (0: none)
    registry,         \* _AGENT_REGISTRY: agent type -> class
    loading,          \* _load_agents: the module it imports next ("done": finished)
    requested,        \* the agent_type of the last get_agent_class call
    lookup,           \* what that call returned, or "ValueError"
    otp_store,        \* OTPService.otp_store: email -> stored OTP (NoOtp: no entry)
    otp_clock,        \* time.time() as the OTP service reads it, in seconds
    otp_log,          \* per email, what happened since its last generate_otp
    otp_call,         \* the last verify_otp call and its answer
    metrics,          \* MetricsCollector._metrics: latency and events per key
    recorded,         \* how many record_latency / record_event calls each key had
    conn,             \* DatabaseConnection: enabled, _pool (0: None), _initialized
    init_task,        \* per caller of initialize(): where it is, and its locals
    init_ret,         \* per caller, what its last initialize() returned and saw
    announced         \* per phone: the booking ids of the last find_customer_bookings
                      \* answer, "Number 1" first

vars == <<bookings, customers, now, pc, req, result, offered, wrote, calls, agent,
          appointment, patient_account, patient, db_up, probe, health, status_code,
          registry, loading, requested, lookup,
          otp_store, otp_clock, otp_log, otp_call, metrics, recorded,
          conn, init_task, init_ret, announced>>

healthVars == <<probe, health, status_code>>
registryVars == <<registry, loading, requested, lookup>>
otpVars == <<otp_store, otp_clock, otp_log, otp_call>>
metricsVars == <<metrics, recorded>>
connVars == <<conn, init_task, init_ret>>
heardVars == <<announced>>

\* the parts of the process beside the receptionist tools
otherParts == <<healthVars, registryVars, otpVars, metricsVars, connVars, heardVars>>

env == <<agent, db_up, otherParts>>

\* the state of the receptionist tools
desk == <<bookings, customers, now, pc, req, result, offered, wrote, calls, agent,
         appointment, patient_account, patient, db_up>>

\* what the health check and the registry leave alone
besideHealth == <<desk, registryVars, otpVars, metricsVars, connVars, heardVars>>
besideRegistry == <<desk, healthVars, otpVars, metricsVars, connVars, heardVars>>
besideOtp == <<desk, healthVars, registryVars, metricsVars, connVars, heardVars>>
besideMetrics == <<desk, healthVars, registryVars, otpVars, connVars, heardVars>>
besideHeard == <<healthVars, registryVars, otpVars, metricsVars, connVars>>
besideConn == <<desk, healthVars, registryVars, otpVars, metricsVars, heardVars>>

hospitalTables == <<appointment, patient_account, patient>>
salonTables == <<bookings, customers>>

-----------------------------------------------------------------------------
(* Bounds of the model *)

MaxCalls == 3
MaxBookings == 2
MaxTicks == 1

Procs == 1 .. 2

\* the salon agent, the LangGraph salon server, the hospital agent
Agents == {"salon", "langgraph", "hospital"}

Dates == 0 .. 2
Today == CHOOSE d \in Dates : \A e \in Dates : d <= e

\* 10:00, 10:15, 10:30
Times == {600, 615, 630}

MinutesPerDay == 24 * 60

\* salon.py: duration = 30  # Default
DefaultDuration == 30

\* salon_service.py: current += timedelta(minutes=30)
SlotStep == 30

\* salon.py: slots[:3], count < 3
SuggestCap == 3

\* hospital_service.py: LIMIT 5
UpcomingCap == 5

-----------------------------------------------------------------------------
(* Static tables: no tool writes them *)

Stylists == {1, 2}

StylistName(s) ==
    IF s = 1 THEN <<"L", "e", "e">> ELSE <<"L", "e", "e", "s", "o", "n">>

StylistActive(s) == s \in Stylists

\* what a caller may say for a stylist
Fragments == { <<"l", "e", "e">>, <<"S", "o", "n">>, <<"z">> }

ServiceNames == {"cut", "color", "wax"}

\* services rows: service_id, duration_minutes
ServiceIds == {1, 2}
ServiceDuration(v) == IF v = 1 THEN 30 ELSE 45

\* stylist_availability rows: stylist 2 works on date 0 only
StylistAvailability ==
    { [stylist_id |-> 1, date |-> 0, start_time |-> 600, end_time |-> 660],
      [stylist_id |-> 1, date |-> 1, start_time |-> 600, end_time |-> 660],
      [stylist_id |-> 1, date |-> 2, start_time |-> 600, end_time |-> 660],
      [stylist_id |-> 2, date |-> 0, start_time |-> 615, end_time |-> 660] }

\* salon_hours rows, by the date whose weekday they are for: open on date 0,
\* marked closed on date 1, no row for date 2
SalonHoursRows ==
    { [date |-> 0, open_time |-> 600, close_time |-> 660, is_closed |-> FALSE],
      [date |-> 1, open_time |-> 600, close_time |-> 660, is_closed |-> TRUE] }

Phones == {"5550000001", "5550000002"}

-----------------------------------------------------------------------------
\* services.name, as the characters the LIKE and IN comparisons see
ServiceName(v) ==
    IF v = 1 THEN <<"c", "u", "t">> ELSE <<"c", "o", "l", "o", "r">>

ServiceActive(v) == v \in ServiceIds

\* stylist_services rows <<stylist_id, service_id>>: Lee does both services,
\* Leeson cuts only
StylistServices == {<<1, 1>>, <<1, 2>>, <<2, 1>>}

\* what a caller may say for a service
ServiceWords ==
    { <<"c", "u", "t">>, <<"c", "o", "l", "o", "r">>, <<"c", "o", "l">>, <<"w", "a", "x">> }

\* the lists find_stylists splits a request into: none, one or two services
MaxServices == 2
ServiceLists ==
    UNION {[1 .. n -> ServiceWords] : n \in 0 .. MaxServices}

(* Pure helpers *)

Lower(c) ==
    CASE c = "L" -> "l"
      [] c = "S" -> "s"
      [] OTHER -> c

LowerSeq(w) == [i \in 1 .. Len(w) |-> Lower(w[i])]

\* SQL: LOWER(name) LIKE '%' || lower(fragment) || '%'
Like(name, frag) ==
    \E i \in 0 .. (Len(name) - Len(frag)) :
        SubSeq(LowerSeq(name), i + 1, i + Len(frag)) = LowerSeq(frag)

\* (datetime.combine(d, t) + timedelta(minutes = m)).time()
AddMinutes(t, m) == (t + m) % MinutesPerDay

Occupying(b) == b.status \in {"confirmed", "pending"}

BookingIds == 1 .. Len(bookings)

NoReq ==
    [op |-> "none", stylist_id |-> 0, stylist_name |-> 0, service_id |-> 0,
     date |-> 0, start_time |-> 0, end_time |-> 0, phone |-> "", customer_id |-> 0,
     booking_id |-> 0, doc_id |-> 0, account_id |-> 0, pt_id |-> 0, app_id |-> 0,
     booking_index |-> 0,
     \* not locals of the code: what held when the call started
     past_at_start |-> FALSE, taken_at_start |-> FALSE]

-----------------------------------------------------------------------------
(* SalonService queries *)

\* get_stylist_details: the rows LIMIT 1 may return; _fetchrow gives None when
\* the pool or the query fails
GetStylistDetails(frag) ==
    IF db_up
    THEN {s \in Stylists : StylistActive(s) /\ Like(StylistName(s), frag)}
    ELSE {}

\* get_service_details: the rows LIMIT 1 may return
GetServiceDetails(name) ==
    CASE ~db_up -> {}
      [] name = "cut" -> {1}
      [] name = "color" -> {2}
      [] OTHER -> {}

\* a conflict test that looks at the start time only
SlotConflict_SameStart(b, stylist_id, booking_date, start_time, end_time) ==
    /\ b.stylist_id = stylist_id
    /\ b.booking_date = booking_date
    /\ b.status \in {"confirmed", "pending"}
    /\ b.start_time = start_time

\* the WHERE clause of check_slot_available's COUNT(*)
SlotConflict(b, stylist_id, booking_date, start_time, end_time) ==
    /\ b.stylist_id = stylist_id
    /\ b.booking_date = booking_date
    /\ b.status \in {"confirmed", "pending"}
    /\ b.start_time < end_time
    /\ b.end_time > start_time

CheckSlotAvailable(stylist_id, booking_date, start_time, end_time, exclude_booking_id) ==
    LET cnt == Cardinality({i \in BookingIds :
                    /\ SlotConflict(bookings[i], stylist_id, booking_date, start_time, end_time)
                    /\ (exclude_booking_id # 0 => i # exclude_booking_id)})
    \* return result["cnt"] == 0 if result else True
    IN  IF db_up THEN cnt = 0 ELSE TRUE

\* datetime.combine(date, time), in minutes
Combine(d, t) == d * MinutesPerDay + t

\* _is_slot_available: False if the requested slot overlaps any of the rows
IsSlotAvailable(requested_start, requested_end, rows) ==
    ~\E b \in rows :
        /\ requested_start < Combine(b.booking_date, b.end_time)
        /\ requested_end > Combine(b.booking_date, b.start_time)

\* ensure_customer's SELECT: the customer_ids fetchrow may return
CustomersByPhone(phone) ==
    IF db_up THEN {c \in 1 .. Len(customers) : customers[c] = phone} ELSE {}

-----------------------------------------------------------------------------
(* SalonAgent.book_appointment *)

CanStart == calls < MaxCalls

\* the ledger of the model holds MaxBookings rows: a call that may insert one
\* starts only while a row is left for it
RoomForBooking ==
    Len(bookings) + Cardinality({q \in Procs : req[q].op = "book"}) < MaxBookings

\* the tool call returns: its locals are dropped
Finish(p, text) ==
    /\ pc' = [pc EXCEPT ![p] = "idle"]
    /\ result' = [result EXCEPT ![p] = text]
    /\ req' = [req EXCEPT ![p] = NoReq]

\* validation, parsing, get_stylist_details, get_service_details, end time
BookStart(p, I) ==
    /\ agent = "salon"
    /\ pc[p] = "idle"
    /\ CanStart
    /\ RoomForBooking
    /\ \E frag \in I.frags, sname \in I.services, d \in I.dates, t \in I.times,
          ph \in I.phones :
         /\ calls' = calls + 1
         /\ wrote' = [wrote EXCEPT ![p] = 0]
         /\ offered' = [offered EXCEPT ![p] = <<>>]
         /\ IF GetStylistDetails(frag) = {}
            THEN Finish(p, "stylist_not_found")
            ELSE IF GetServiceDetails(sname) = {}
            THEN Finish(p, "service_not_found")
            ELSE \E s \in GetStylistDetails(frag), v \in GetServiceDetails(sname) :
                 /\ req' = [req EXCEPT ![p] =
                        [NoReq EXCEPT !.op = "book", !.stylist_id = s, !.service_id = v,
                                      !.stylist_name = frag,
                                      !.date = d, !.start_time = t,
                                      !.end_time = AddMinutes(t, ServiceDuration(v)),
                                      !.phone = ph,
                                      !.past_at_start = (d = Today /\ t <= now),
                                      !.taken_at_start =
                                          ~CheckSlotAvailable(s, d, t,
                                              AddMinutes(t, ServiceDuration(v)), 0)]]
                 /\ pc' = [pc EXCEPT ![p] = "check"]
                 /\ result' = [result EXCEPT ![p] = "running"]
    /\ UNCHANGED <<bookings, customers, now>>
    /\ UNCHANGED <<env, hospitalTables>>

\* 5. Final availability check
BookCheck(p) ==
    /\ pc[p] = "check"
    /\ IF CheckSlotAvailable(req[p].stylist_id, req[p].date, req[p].start_time,
                             req[p].end_time, 0)
       THEN /\ pc' = [pc EXCEPT ![p] = "cust_select"]
            /\ UNCHANGED <<result, req>>
       ELSE Finish(p, "just_booked")
    /\ UNCHANGED <<bookings, customers, now, offered, wrote, calls>>
    /\ UNCHANGED <<env, hospitalTables>>

\* ensure_customer: SELECT customer_id FROM customers WHERE phone_number = $1
BookCustomerSelect(p) ==
    /\ pc[p] = "cust_select"
    /\ IF CustomersByPhone(req[p].phone) # {}
       THEN \E c \in CustomersByPhone(req[p].phone) :
              /\ req' = [req EXCEPT ![p].customer_id = c]
              /\ pc' = [pc EXCEPT ![p] = "insert"]
       ELSE /\ pc' = [pc EXCEPT ![p] = "cust_insert"]
            /\ UNCHANGED req
    /\ UNCHANGED <<bookings, customers, now, result, offered, wrote, calls>>
    /\ UNCHANGED <<env, hospitalTables>>

\* ensure_customer: INSERT INTO customers ... RETURNING customer_id; _fetchval
\* gives None (0 here) when the statement fails
BookCustomerInsert(p) ==
    /\ pc[p] = "cust_insert"
    /\ customers' = IF db_up THEN Append(customers, req[p].phone) ELSE customers
    /\ req' = [req EXCEPT ![p].customer_id = IF db_up THEN Len(customers) + 1 ELSE 0]
    /\ pc' = [pc EXCEPT ![p] = "insert"]
    /\ UNCHANGED <<bookings, now, result, offered, wrote, calls>>
    /\ UNCHANGED <<env, hospitalTables>>

\* create_booking: INSERT INTO bookings ... 'confirmed' RETURNING booking_id
CreateBooking(customer_id, stylist_id, service_id, booking_date, start_time, end_time) ==
    Append(bookings,
           [customer_id |-> customer_id, stylist_id |-> stylist_id,
            service_id |-> service_id, booking_date |-> booking_date,
            start_time |-> start_time, end_time |-> end_time, status |-> "confirmed"])

\* 7. Create booking: "if not booking_id" answers with the try-again text.  The
\* schema of bookings is not in the repository, so an INSERT with customer_id
\* None may be taken or refused by the database.
BookInsert(p) ==
    /\ pc[p] = "insert"
    /\ \/ /\ db_up
          /\ bookings' = CreateBooking(req[p].customer_id, req[p].stylist_id,
                                       req[p].service_id, req[p].date,
                                       req[p].start_time, req[p].end_time)
          /\ wrote' = [wrote EXCEPT ![p] = Len(bookings) + 1]
          /\ Finish(p, "confirmed")
       \/ /\ ~db_up \/ req[p].customer_id = 0
          /\ UNCHANGED <<bookings, wrote>>
          /\ Finish(p, "try_again")
    /\ UNCHANGED <<customers, now, offered, calls>>
    /\ UNCHANGED <<env, hospitalTables>>

-----------------------------------------------------------------------------
(* SalonService.find_customer_bookings and the tools that resolve an index *)

\* ORDER BY b.booking_date, b.start_time
BookingOrderLE(i, j) ==
    \/ bookings[i].booking_date < bookings[j].booking_date
    \/ /\ bookings[i].booking_date = bookings[j].booking_date
       /\ bookings[i].start_time <= bookings[j].start_time

\* the orders in which the database may return the rows ids; keyLE[<<i, j>>]
\* says whether the ORDER BY lets row i come before row j
Orderings(ids, keyLE) ==
    {q \in [1 .. Cardinality(ids) -> ids] :
        /\ \A a, b \in DOMAIN q : a # b => q[a] # q[b]
        /\ \A a, b \in DOMAIN q : a < b => keyLE[<<q[a], q[b]>>]}

\* the mutated listing: bookings that have started are left out
GetStylistBookings_Clock(stylist_id, date_val) ==
    LET rows == {i \in BookingIds :
                    /\ bookings[i].stylist_id = stylist_id
                    /\ bookings[i].booking_date = date_val
                    /\ bookings[i].status \in {"confirmed", "pending"}
                    /\ bookings[i].start_time >= now}
    IN  IF db_up
        THEN Orderings(rows, [pr \in rows \X rows |->
                 bookings[pr[1]].start_time <= bookings[pr[2]].start_time])
        ELSE {<<>>}

\* get_stylist_bookings: the lists of booking_ids the query may return
\* (ORDER BY start_time)
GetStylistBookings(stylist_id, date_val) ==
    LET rows == {i \in BookingIds :
                    /\ bookings[i].stylist_id = stylist_id
                    /\ bookings[i].booking_date = date_val
                    /\ bookings[i].status \in {"confirmed", "pending"}}
    IN  IF db_up
        THEN Orderings(rows, [pr \in rows \X rows |->
                 bookings[pr[1]].start_time <= bookings[pr[2]].start_time])
        ELSE {<<>>}

\* the mutated query: no join on the customer's phone number
FindCustomerBookingsRows_AnyCustomer(phone) ==
    {i \in BookingIds :
        /\ bookings[i].status \in {"confirmed", "pending"}
        /\ bookings[i].booking_date >= Today}

\* WHERE c.phone_number = $1 AND b.status IN ('confirmed', 'pending')
\*   AND b.booking_date >= CURRENT_DATE
FindCustomerBookingsRows(phone) ==
    {i \in BookingIds :
        /\ bookings[i].customer_id \in CustomersByPhone(phone)
        /\ bookings[i].status \in {"confirmed", "pending"}
        /\ bookings[i].booking_date >= Today}

\* _fetch gives [] when the pool or the query fails
FindCustomerBookings(phone) ==
    LET rows == FindCustomerBookingsRows(phone)
    IN  IF db_up
        THEN Orderings(rows, [pr \in rows \X rows |-> BookingOrderLE(pr[1], pr[2])])
        ELSE {<<>>}

\* SalonService.cancel_booking: UPDATE bookings SET status = 'cancelled' WHERE booking_id = $1
\* get_stylists_for_service: the stylist_ids of the rows
GetStylistsForService(service_name) ==
    IF db_up
    THEN {r[1] : r \in {x \in StylistServices :
                          /\ StylistActive(x[1])
                          /\ ServiceActive(x[2])
                          /\ Like(ServiceName(x[2]), service_name)}}
    ELSE {}

\* get_stylists_for_multiple_services: LOWER(sv.name) IN (the lowercased names),
\* GROUP BY stylist, HAVING COUNT(DISTINCT sv.name) >= len(service_names)
GetStylistsForMultipleServices(service_names) ==
    LET args == {LowerSeq(service_names[k]) : k \in DOMAIN service_names}
        rows == {x \in StylistServices :
                    /\ StylistActive(x[1])
                    /\ ServiceActive(x[2])
                    /\ LowerSeq(ServiceName(x[2])) \in args}
        names(st) == {ServiceName(x[2]) : x \in {y \in rows : y[1] = st}}
    IN  IF service_names = <<>> \/ ~db_up
        THEN {}
        ELSE {st \in {x[1] : x \in rows} :
                 Cardinality(names(st)) >= Len(service_names)}

\* get_stylists_for_service tool: one service asks get_stylists_for_service,
\* any other number get_stylists_for_multiple_services
StylistSearch(p, I) ==
    /\ agent = "salon"
    /\ pc[p] = "idle"
    /\ CanStart
    /\ \E services \in I.servicelists :
         LET stylists == IF Len(services) = 1
                         THEN GetStylistsForService(services[1])
                         ELSE GetStylistsForMultipleServices(services)
         IN  /\ calls' = calls + 1
             /\ wrote' = [wrote EXCEPT ![p] = 0]
             /\ offered' = [offered EXCEPT ![p] = <<>>]
             /\ Finish(p, IF stylists = {} THEN "no_stylist_for_services"
                          ELSE "stylists_for_services")
    /\ UNCHANGED <<bookings, customers, now>>
    /\ UNCHANGED <<env, hospitalTables>>

\* find_customer_bookings tool: "if not bookings" answers that nothing was found
FindMyBookings(p, I) ==
    /\ agent = "salon"
    /\ pc[p] = "idle"
    /\ CanStart
    /\ \E ph \in I.phones : \E list \in FindCustomerBookings(ph) :
         /\ wrote' = [wrote EXCEPT ![p] = 0]
         /\ offered' = [offered EXCEPT ![p] = <<>>]
         /\ announced' = [announced EXCEPT ![ph] = list]
         /\ Finish(p, IF list = <<>> THEN "no_bookings" ELSE "found")
    /\ UNCHANGED <<bookings, customers, now, calls>>
    /\ UNCHANGED <<agent, db_up, besideHeard, hospitalTables>>

CancelBookingRows(booking_id) ==
    [bookings EXCEPT ![booking_id].status = "cancelled"]

\* SalonService.reschedule_booking without new_stylist_id
RescheduleBookingRows(booking_id, new_date, new_start_time, new_end_time) ==
    [bookings EXCEPT ![booking_id].booking_date = new_date,
                     ![booking_id].start_time = new_start_time,
                     ![booking_id].end_time = new_end_time]

\* SalonAgent.cancel_booking up to the index check
CancelStart(p, I) ==
    /\ agent = "salon"
    /\ pc[p] = "idle"
    /\ CanStart
    /\ \E idx \in I.indexes, ph \in I.phones :
         /\ calls' = calls + 1
         /\ wrote' = [wrote EXCEPT ![p] = 0]
         /\ offered' = [offered EXCEPT ![p] = <<>>]
         /\ \E list \in FindCustomerBookings(ph) :
              IF list = <<>> \/ idx < 1 \/ idx > Len(list)
              THEN Finish(p, "booking_not_found")
              ELSE /\ req' = [req EXCEPT ![p] =
                          [NoReq EXCEPT !.op = "cancel", !.phone = ph,
                                        !.booking_index = idx,
                                        !.booking_id = list[idx]]]
                   /\ pc' = [pc EXCEPT ![p] = "cancel_update"]
                   /\ result' = [result EXCEPT ![p] = "running"]
    /\ UNCHANGED <<bookings, customers, now>>
    /\ UNCHANGED <<env, hospitalTables>>

\* success = "UPDATE" in result; _execute gives "DB Unavailable" or "Error: ..."
\* when the statement fails
CancelUpdate(p) ==
    /\ pc[p] = "cancel_update"
    /\ IF db_up
       THEN /\ bookings' = CancelBookingRows(req[p].booking_id)
            /\ wrote' = [wrote EXCEPT ![p] = req[p].booking_id]
            /\ Finish(p, "cancelled")
       ELSE /\ UNCHANGED <<bookings, wrote>>
            /\ Finish(p, "try_again")
    /\ UNCHANGED <<customers, now, offered, calls>>
    /\ UNCHANGED <<env, hospitalTables>>

\* SalonAgent.reschedule_booking up to the computed end time
RescheduleStart(p, I) ==
    /\ agent = "salon"
    /\ pc[p] = "idle"
    /\ CanStart
    /\ \E idx \in I.indexes, ph \in I.phones, d \in I.dates, t \in I.times :
         /\ calls' = calls + 1
         /\ wrote' = [wrote EXCEPT ![p] = 0]
         /\ offered' = [offered EXCEPT ![p] = <<>>]
         /\ \E list \in FindCustomerBookings(ph) :
              IF list = <<>> \/ idx < 1 \/ idx > Len(list)
              THEN Finish(p, "booking_not_found")
              ELSE IF d < Today
              THEN Finish(p, "past_date")
              ELSE IF d = Today /\ t <= now
              THEN Finish(p, "time_passed")
              ELSE /\ req' = [req EXCEPT ![p] =
                          [NoReq EXCEPT !.op = "reschedule", !.phone = ph,
                                        !.booking_index = idx,
                                        !.booking_id = list[idx], !.date = d,
                                        !.start_time = t,
                                        !.end_time = AddMinutes(t, DefaultDuration)]]
                   /\ pc' = [pc EXCEPT ![p] = "reschedule_update"]
                   /\ result' = [result EXCEPT ![p] = "running"]
    /\ UNCHANGED <<bookings, customers, now>>
    /\ UNCHANGED <<env, hospitalTables>>

RescheduleUpdate(p) ==
    /\ pc[p] = "reschedule_update"
    /\ IF db_up
       THEN /\ bookings' = RescheduleBookingRows(req[p].booking_id, req[p].date,
                                                 req[p].start_time, req[p].end_time)
            /\ wrote' = [wrote EXCEPT ![p] = req[p].booking_id]
            /\ Finish(p, "rescheduled")
       ELSE /\ UNCHANGED <<bookings, wrote>>
            /\ Finish(p, "try_again")
    /\ UNCHANGED <<customers, now, offered, calls>>
    /\ UNCHANGED <<env, hospitalTables>>

-----------------------------------------------------------------------------
(* SalonService.get_slots_in_range and SalonAgent.find_availability *)

Max(a, b) == IF a >= b THEN a ELSE b
Min(a, b) == IF a <= b THEN a ELSE b

\* get_salon_hours: the row fetchrow returns, as a set (empty: None)
GetSalonHours(d) == IF db_up THEN {h \in SalonHoursRows : h.date = d} ELSE {}

\* query_shifts; stylist_id 0 stands for None
ShiftRows(booking_date, stylist_id) ==
    IF db_up
    THEN {sh \in StylistAvailability :
            /\ sh.date = booking_date
            /\ StylistActive(sh.stylist_id)
            /\ (stylist_id # 0 => sh.stylist_id = stylist_id)}
    ELSE {}

\* is_overlapped over the rows of query_bookings
IsOverlapped(s_id, booking_date, start, end) ==
    \E i \in BookingIds :
        /\ db_up
        /\ bookings[i].booking_date = booking_date
        /\ bookings[i].status \in {"confirmed", "pending"}
        /\ bookings[i].stylist_id = s_id
        /\ start < bookings[i].end_time
        /\ end > bookings[i].start_time

\* the while loop over one shift; current and limit are datetimes of booking_date
RECURSIVE SlotWalk(_, _, _, _, _)
SlotWalk(s_id, booking_date, current, limit, duration_minutes) ==
    IF current + duration_minutes <= limit
    THEN LET slot_start == current % MinutesPerDay
             slot_end == AddMinutes(current, duration_minutes)
             rest == SlotWalk(s_id, booking_date, current + SlotStep, limit,
                              duration_minutes)
         IN  IF ~IsOverlapped(s_id, booking_date, slot_start, slot_end)
             THEN <<[stylist_id |-> s_id, start_time |-> slot_start]>> \o rest
             ELSE rest
    ELSE <<>>

ShiftSlots(shift, booking_date, start_range, end_range, duration_minutes) ==
    LET eff_start == Max(shift.start_time, start_range)
        eff_end == Min(shift.end_time, end_range)
    IN  IF eff_start >= eff_end
        THEN <<>>
        ELSE SlotWalk(shift.stylist_id, booking_date, eff_start, eff_end,
                      duration_minutes)

RECURSIVE SlotsOfShifts(_, _, _, _, _)
SlotsOfShifts(shifts, booking_date, start_range, end_range, duration_minutes) ==
    IF shifts = <<>>
    THEN <<>>
    ELSE ShiftSlots(Head(shifts), booking_date, start_range, end_range, duration_minutes)
         \o SlotsOfShifts(Tail(shifts), booking_date, start_range, end_range,
                          duration_minutes)

\* the lists get_slots_in_range may return: query_shifts has no ORDER BY
GetSlotsInRange(booking_date, start_range, end_range, duration_minutes, stylist_id) ==
    LET shifts == ShiftRows(booking_date, stylist_id)
    IN  {SlotsOfShifts(order, booking_date, start_range, end_range, duration_minutes) :
            order \in Orderings(shifts, [pr \in shifts \X shifts |-> TRUE])}

\* 2. Parse time/period: the (start_range, end_range) of a time query
TimeWindow(tq) ==
    CASE tq.kind = "morning" -> <<9 * 60, 12 * 60>>
      [] tq.kind = "afternoon" -> <<12 * 60, 17 * 60>>
      [] tq.kind = "evening" -> <<17 * 60, 20 * 60>>
      [] tq.kind = "any" -> <<9 * 60, 19 * 60>>
      [] OTHER -> <<(tq.at - 60) % MinutesPerDay, (tq.at + 60) % MinutesPerDay>>

FirstN(q, n) == SubSeq(q, 1, Min(Len(q), n))

\* "Pick a few distinct options": first SuggestCap slots with unseen start times
RECURSIVE DistinctOptions(_, _, _)
DistinctOptions(slots, seen_times, count) ==
    IF slots = <<>>
    THEN <<>>
    ELSE IF Head(slots).start_time \notin seen_times /\ count < SuggestCap
    THEN <<Head(slots)>> \o DistinctOptions(Tail(slots),
                                seen_times \cup {Head(slots).start_time}, count + 1)
    ELSE DistinctOptions(Tail(slots), seen_times, count)

\* 4b and 5 of find_availability: what the answer names for the slots found
AnswerSlots(slots, booking_date, stylist_id) ==
    LET NotPast(sl) == sl.start_time > now
        kept == IF booking_date = Today THEN SelectSeq(slots, NotPast) ELSE slots
    IN  IF stylist_id # 0 THEN FirstN(kept, SuggestCap)
        ELSE DistinctOptions(kept, {}, 0)

FindAvailability(p, I) ==
    /\ agent = "salon"
    /\ pc[p] = "idle"
    /\ CanStart
    /\ \E d \in I.dates, tq \in I.queries, frag \in I.frags \cup {<<>>},
          dur \in I.durations :
         /\ calls' = calls + 1
         /\ wrote' = [wrote EXCEPT ![p] = 0]
         /\ IF d < Today
            THEN /\ Finish(p, "past_date")
                 /\ offered' = [offered EXCEPT ![p] = <<>>]
            ELSE IF frag # <<>> /\ GetStylistDetails(frag) = {}
            THEN /\ Finish(p, "stylist_not_found")
                 /\ offered' = [offered EXCEPT ![p] = <<>>]
            ELSE \E s \in (IF frag = <<>> THEN {0} ELSE GetStylistDetails(frag)) :
                 \E slots \in GetSlotsInRange(d, TimeWindow(tq)[1], TimeWindow(tq)[2],
                                               dur, s) :
                   LET answer == AnswerSlots(slots, d, s)
                   IN  /\ offered' = [offered EXCEPT ![p] =
                              [k \in DOMAIN answer |->
                                  [date |-> d, start_time |-> answer[k].start_time,
                                   stylist_id |-> answer[k].stylist_id]]]
                       /\ Finish(p, IF answer = <<>> THEN "no_openings" ELSE "slots")
    /\ UNCHANGED <<bookings, customers, now>>
    /\ UNCHANGED <<env, hospitalTables>>

-----------------------------------------------------------------------------
(* The LangGraph salon server, src/temporary.py *)

\* SELECT stylist_id FROM stylists WHERE LOWER(name) LIKE $1: the rows [0] may be
LgStylists(frag) == {s \in Stylists : Like(StylistName(s), frag)}

\* SELECT service_id, duration_minutes FROM services WHERE LOWER(name) LIKE $1
LgServices(name) ==
    CASE name = "cut" -> {1}
      [] name = "color" -> {2}
      [] OTHER -> {}

\* the loop over services: ids of the services found, in order
RECURSIVE LgServiceIds(_)
LgServiceIds(names) ==
    IF names = <<>>
    THEN <<>>
    ELSE LET s_res == LgServices(Head(names))
         IN  (IF s_res # {} THEN <<CHOOSE v \in s_res : TRUE>> ELSE <<>>)
             \o LgServiceIds(Tail(names))

RECURSIVE LgTotalDuration(_)
LgTotalDuration(ids) ==
    IF ids = <<>> THEN 0 ELSE ServiceDuration(Head(ids)) + LgTotalDuration(Tail(ids))

\* a conflict count that does not leave the booking itself out
LgConflictCount_Self(stylist_id, booking_date, start_time, end_time, exclude) ==
    Cardinality({i \in BookingIds :
        /\ bookings[i].stylist_id = stylist_id
        /\ bookings[i].booking_date = booking_date
        /\ bookings[i].status \in {"CONFIRMED", "PENDING"}
        /\ bookings[i].start_time < end_time
        /\ bookings[i].end_time > start_time})

\* status IN ('CONFIRMED', 'PENDING') AND start_time < $end AND end_time > $start;
\* exclude 0 stands for the query of create_booking, which has no booking_id != $3
LgConflictCount(stylist_id, booking_date, start_time, end_time, exclude) ==
    Cardinality({i \in BookingIds :
        /\ bookings[i].stylist_id = stylist_id
        /\ bookings[i].booking_date = booking_date
        /\ bookings[i].status \in {"CONFIRMED", "PENDING"}
        /\ (exclude # 0 => i # exclude)
        /\ bookings[i].start_time < end_time
        /\ bookings[i].end_time > start_time})

\* create_booking up to the INSERT INTO customers, which it always does
LgCreateStart(p, I) ==
    /\ agent = "langgraph"
    /\ pc[p] = "idle"
    /\ CanStart
    /\ RoomForBooking
    /\ \E frag \in I.frags, names \in I.lists, d \in I.dates, t \in I.times,
          ph \in I.phones :
         /\ calls' = calls + 1
         /\ wrote' = [wrote EXCEPT ![p] = 0]
         /\ offered' = [offered EXCEPT ![p] = <<>>]
         /\ IF LgStylists(frag) = {}
            THEN /\ Finish(p, "stylist_not_found")
                 /\ UNCHANGED customers
            ELSE \E s \in LgStylists(frag) :
                 LET service_ids == LgServiceIds(names)
                     end_time == AddMinutes(t, LgTotalDuration(service_ids))
                 IN  /\ customers' = Append(customers, ph)
                     /\ req' = [req EXCEPT ![p] =
                            [NoReq EXCEPT !.op = "book", !.stylist_id = s,
                                          !.service_id = IF service_ids = <<>> THEN 0
                                                         ELSE Head(service_ids),
                                          !.date = d, !.start_time = t,
                                          !.end_time = end_time, !.phone = ph,
                                          !.customer_id = Len(customers) + 1,
                                          !.past_at_start = (d = Today /\ t <= now),
                                          !.taken_at_start =
                                              LgConflictCount(s, d, t, end_time, 0) > 0]]
                     /\ pc' = [pc EXCEPT ![p] = "lg_check"]
                     /\ result' = [result EXCEPT ![p] = "running"]
    /\ UNCHANGED <<bookings, now, env, hospitalTables>>

\* conflict_count, then primary_service_id
LgCreateCheck(p) ==
    /\ pc[p] = "lg_check"
    /\ IF LgConflictCount(req[p].stylist_id, req[p].date, req[p].start_time,
                          req[p].end_time, 0) > 0
       THEN Finish(p, "just_booked")
       ELSE IF req[p].service_id = 0
       THEN Finish(p, "services_not_verified")
       ELSE /\ pc' = [pc EXCEPT ![p] = "lg_insert"]
            /\ UNCHANGED <<result, req>>
    /\ UNCHANGED <<bookings, customers, now, offered, wrote, calls, env, hospitalTables>>

\* INSERT INTO bookings ... 'CONFIRMED'
LgCreateInsert(p) ==
    /\ pc[p] = "lg_insert"
    /\ bookings' = Append(bookings,
           [customer_id |-> req[p].customer_id, stylist_id |-> req[p].stylist_id,
            service_id |-> req[p].service_id, booking_date |-> req[p].date,
            start_time |-> req[p].start_time, end_time |-> req[p].end_time,
            status |-> "CONFIRMED"])
    /\ wrote' = [wrote EXCEPT ![p] = Len(bookings) + 1]
    /\ Finish(p, "confirmed")
    /\ UNCHANGED <<customers, now, offered, calls, env, hospitalTables>>

\* cancel_booking_action: SELECT booking_id FROM bookings WHERE booking_id = $1
LgCancelStart(p, I) ==
    /\ agent = "langgraph"
    /\ pc[p] = "idle"
    /\ CanStart
    /\ \E booking_id \in I.indexes :
         /\ calls' = calls + 1
         /\ wrote' = [wrote EXCEPT ![p] = 0]
         /\ offered' = [offered EXCEPT ![p] = <<>>]
         /\ IF booking_id \notin BookingIds
            THEN Finish(p, "booking_not_found")
            ELSE /\ req' = [req EXCEPT ![p] =
                        [NoReq EXCEPT !.op = "cancel", !.booking_id = booking_id]]
                 /\ pc' = [pc EXCEPT ![p] = "lg_cancel_update"]
                 /\ result' = [result EXCEPT ![p] = "running"]
    /\ UNCHANGED <<bookings, customers, now, env, hospitalTables>>

\* UPDATE bookings SET status = 'CANCELLED' WHERE booking_id = $1
LgCancelUpdate(p) ==
    /\ pc[p] = "lg_cancel_update"
    /\ bookings' = [bookings EXCEPT ![req[p].booking_id].status = "CANCELLED"]
    /\ wrote' = [wrote EXCEPT ![p] = req[p].booking_id]
    /\ Finish(p, "cancelled")
    /\ UNCHANGED <<customers, now, offered, calls, env, hospitalTables>>

\* reschedule_booking_action, 1. to 5.: booking, duration, stylist, end time
LgRescheduleStart(p, I) ==
    /\ agent = "langgraph"
    /\ pc[p] = "idle"
    /\ CanStart
    /\ \E booking_id \in I.indexes, frag \in I.frags, d \in I.dates, t \in I.times :
         /\ calls' = calls + 1
         /\ wrote' = [wrote EXCEPT ![p] = 0]
         /\ offered' = [offered EXCEPT ![p] = <<>>]
         /\ IF booking_id \notin BookingIds
            THEN Finish(p, "booking_not_found")
            ELSE IF LgStylists(frag) = {}
            THEN Finish(p, "stylist_not_found")
            ELSE \E s \in LgStylists(frag) :
                 LET duration == ServiceDuration(bookings[booking_id].service_id)
                 IN  /\ req' = [req EXCEPT ![p] =
                            [NoReq EXCEPT !.op = "reschedule", !.booking_id = booking_id,
                                          !.stylist_id = s, !.date = d, !.start_time = t,
                                          !.end_time = AddMinutes(t, duration)]]
                     /\ pc' = [pc EXCEPT ![p] = "lg_reschedule_check"]
                     /\ result' = [result EXCEPT ![p] = "running"]
    /\ UNCHANGED <<bookings, customers, now, env, hospitalTables>>

\* 6. Double Check Availability (Safety Lock)
LgRescheduleCheck(p) ==
    /\ pc[p] = "lg_reschedule_check"
    /\ IF LgConflictCount(req[p].stylist_id, req[p].date, req[p].start_time,
                          req[p].end_time, req[p].booking_id) > 0
       THEN Finish(p, "just_booked")
       ELSE /\ pc' = [pc EXCEPT ![p] = "lg_reschedule_update"]
            /\ UNCHANGED <<result, req>>
    /\ UNCHANGED <<bookings, customers, now, offered, wrote, calls, env, hospitalTables>>

\* 7. Execute Update
LgRescheduleUpdate(p) ==
    /\ pc[p] = "lg_reschedule_update"
    /\ bookings' = [bookings EXCEPT ![req[p].booking_id].stylist_id = req[p].stylist_id,
                                    ![req[p].booking_id].booking_date = req[p].date,
                                    ![req[p].booking_id].start_time = req[p].start_time,
                                    ![req[p].booking_id].end_time = req[p].end_time]
    /\ wrote' = [wrote EXCEPT ![p] = req[p].booking_id]
    /\ Finish(p, "rescheduled")
    /\ UNCHANGED <<customers, now, offered, calls, env, hospitalTables>>

-----------------------------------------------------------------------------
(* The hospital agent, src/agents/hospital.py over src/memory/hospital_service.py *)

Doctors == {1}

DoctorName(doc) == <<"S", "e", "n">>

\* self.caller_identity of the session of task p
CallerIdentity(p) == IF p = 1 THEN "5550000001" ELSE "5550000002"

AppIds == 1 .. Len(appointment)

\* get_doctor_details: the rows LIMIT 1 may return (every doctor is Active)
GetDoctorDetails(frag) == {doc \in Doctors : Like(DoctorName(doc), frag)}

\* CREATE UNIQUE INDEX ux_doctor_appointment_time ON appointment (doc_id, date_time)
\*   WHERE app_status NOT IN ('Cancelled', 'NoShow')
UxDoctorAppointmentTime(rows) ==
    \A i, j \in DOMAIN rows :
        (/\ i # j
         /\ rows[i].app_status \notin {"Cancelled", "NoShow"}
         /\ rows[j].app_status \notin {"Cancelled", "NoShow"})
        => ~(/\ rows[i].doc_id = rows[j].doc_id
             /\ rows[i].date = rows[j].date
             /\ rows[i].time = rows[j].time)

\* the mutated table: no unique index
IndexGuarded_NoIndex(rows) == rows

\* a write the index refuses raises, and the table stays as it was
IndexGuarded(rows) == IF UxDoctorAppointmentTime(rows) THEN rows ELSE appointment

AccountsByMobile(mobile_no) ==
    {a \in 1 .. Len(patient_account) : patient_account[a] = mobile_no}

PatientsOfAccount(account_id) == {t \in 1 .. Len(patient) : patient[t] = account_id}

\* ORDER BY a.date_time ASC
AppointmentOrderLE(i, j) ==
    \/ appointment[i].date < appointment[j].date
    \/ /\ appointment[i].date = appointment[j].date
       /\ appointment[i].time <= appointment[j].time

\* find_upcoming_appointments: the lists the query may return
FindUpcomingAppointments(mobile_no) ==
    LET rows == {i \in AppIds :
                    /\ appointment[i].account_id \in AccountsByMobile(mobile_no)
                    /\ appointment[i].pt_id \in 1 .. Len(patient)
                    /\ \/ appointment[i].date > Today
                       \/ appointment[i].date = Today /\ appointment[i].time >= now
                    /\ appointment[i].app_status = "Booked"}
    IN  {FirstN(q, UpcomingCap) :
            q \in Orderings(rows,
                            [pr \in rows \X rows |-> AppointmentOrderLE(pr[1], pr[2])])}

\* doc_shift rows of the weekday of a date: the doctor sits 10:00-11:00 on date
\* 0 and 10:15-11:15 on date 1, and has no office hours on date 2
GetDoctorShift(doc_id, d) ==
    CASE d = 0 -> {[start_time |-> 600, end_time |-> 660]}
      [] d = 1 -> {[start_time |-> 615, end_time |-> 675]}
      [] OTHER -> {}

\* get_doctor_bookings: the lists of app_ids whose date_time the query may return
GetDoctorBookings(doc_id, date_val) ==
    LET rows == {i \in AppIds :
                    /\ appointment[i].doc_id = doc_id
                    /\ appointment[i].date = date_val
                    /\ appointment[i].app_status \notin {"Cancelled", "NoShow", "Rescheduled"}}
    IN  Orderings(rows, [pr \in rows \X rows |-> TRUE])

\* 4. Calculate Slots: the while loop over the shift
RECURSIVE DoctorSlots(_, _, _)
DoctorSlots(current_m, end_m, booked_minutes) ==
    IF current_m + 30 <= end_m
    THEN (IF current_m \notin booked_minutes THEN <<current_m>> ELSE <<>>)
         \o DoctorSlots(current_m + 30, end_m, booked_minutes)
    ELSE <<>>

\* check_doctor_availability; 0 stands for no before_time / after_time
CheckDoctorAvailability(p, I) ==
    /\ agent = "hospital"
    /\ pc[p] = "idle"
    /\ CanStart
    /\ \E frag \in I.docfrags, d \in I.dates, before_time \in I.befores,
          after_time \in I.afters :
         /\ calls' = calls + 1
         /\ wrote' = [wrote EXCEPT ![p] = 0]
         /\ IF d < Today
            THEN /\ Finish(p, "past_date")
                 /\ offered' = [offered EXCEPT ![p] = <<>>]
            ELSE IF GetDoctorDetails(frag) = {}
            THEN /\ Finish(p, "doctor_not_found")
                 /\ offered' = [offered EXCEPT ![p] = <<>>]
            ELSE \E doc \in GetDoctorDetails(frag) :
                 \E bookings_list \in GetDoctorBookings(doc, d) :
                 IF GetDoctorShift(doc, d) = {}
                 THEN /\ Finish(p, "no_office_hours")
                      /\ offered' = [offered EXCEPT ![p] = <<>>]
                 ELSE \E shift \in GetDoctorShift(doc, d) :
                      LET booked_minutes ==
                              UNION {appointment[bookings_list[k]].time ..
                                       (appointment[bookings_list[k]].time + 29) :
                                     k \in DOMAIN bookings_list}
                          available_slots ==
                              DoctorSlots(shift.start_time, shift.end_time,
                                          booked_minutes)
                          Kept(m) == /\ (before_time # 0 => m < before_time)
                                     /\ (after_time # 0 => m > after_time)
                          filtered_slots == SelectSeq(available_slots, Kept)
                      IN  /\ offered' = [offered EXCEPT ![p] =
                                 [k \in DOMAIN filtered_slots |->
                                     [date |-> d, start_time |-> filtered_slots[k],
                                      doc_id |-> doc]]]
                          /\ Finish(p, IF available_slots = <<>> THEN "fully_booked"
                                       ELSE IF filtered_slots = <<>>
                                       THEN "none_in_range"
                                       ELSE "doctor_slots")
    /\ UNCHANGED <<now, env, salonTables, hospitalTables>>

RoomForAppointment ==
    Len(appointment) + Cardinality({q \in Procs : req[q].op = "book"}) < MaxBookings

\* book_appointment: 1. parse, slot alignment, 2. resolve doctor
HBookStart(p, I) ==
    /\ agent = "hospital"
    /\ pc[p] = "idle"
    /\ CanStart
    /\ RoomForAppointment
    /\ \E frag \in I.docfrags, d \in I.dates, t \in I.times :
         /\ calls' = calls + 1
         /\ wrote' = [wrote EXCEPT ![p] = 0]
         /\ offered' = [offered EXCEPT ![p] = <<>>]
         /\ IF (t % 60) \notin {0, 30}
            THEN Finish(p, "standard_slot")
            ELSE IF GetDoctorDetails(frag) = {}
            THEN Finish(p, "doctor_not_found")
            ELSE \E doc \in GetDoctorDetails(frag) :
                 /\ req' = [req EXCEPT ![p] =
                        [NoReq EXCEPT !.op = "book", !.doc_id = doc, !.date = d,
                                      !.start_time = t, !.phone = I.identity[p],
                                      !.past_at_start = (d = Today /\ t <= now)]]
                 /\ pc' = [pc EXCEPT ![p] = "h_account_select"]
                 /\ result' = [result EXCEPT ![p] = "running"]
    /\ UNCHANGED <<now, env, salonTables, hospitalTables>>

\* ensure_patient_account: SELECT account_id FROM patient_account WHERE mobile_no = $1
HAccountSelect(p) ==
    /\ pc[p] = "h_account_select"
    /\ IF AccountsByMobile(req[p].phone) # {}
       THEN \E a \in AccountsByMobile(req[p].phone) :
              /\ req' = [req EXCEPT ![p].account_id = a]
              /\ pc' = [pc EXCEPT ![p] = "h_patient_select"]
       ELSE /\ pc' = [pc EXCEPT ![p] = "h_account_insert"]
            /\ UNCHANGED req
    /\ UNCHANGED <<now, result, offered, wrote, calls, env, salonTables, hospitalTables>>

\* INSERT INTO patient_account (mobile_no) VALUES ($1) ON CONFLICT DO NOTHING
HAccountInsert(p) ==
    /\ pc[p] = "h_account_insert"
    /\ patient_account' = IF AccountsByMobile(req[p].phone) = {}
                          THEN Append(patient_account, req[p].phone)
                          ELSE patient_account
    /\ pc' = [pc EXCEPT ![p] = "h_account_reselect"]
    /\ UNCHANGED <<now, req, result, offered, wrote, calls, env, salonTables,
                   appointment, patient>>

\* the second SELECT of ensure_patient_account
HAccountReselect(p) ==
    /\ pc[p] = "h_account_reselect"
    /\ \E a \in AccountsByMobile(req[p].phone) :
         req' = [req EXCEPT ![p].account_id = a]
    /\ pc' = [pc EXCEPT ![p] = "h_patient_select"]
    /\ UNCHANGED <<now, result, offered, wrote, calls, env, salonTables, hospitalTables>>

\* ensure_patient: SELECT pt_id FROM patient WHERE account_id = $1 AND LOWER(name) = $2
HPatientSelect(p) ==
    /\ pc[p] = "h_patient_select"
    /\ IF PatientsOfAccount(req[p].account_id) # {}
       THEN \E t \in PatientsOfAccount(req[p].account_id) :
              /\ req' = [req EXCEPT ![p].pt_id = t]
              /\ pc' = [pc EXCEPT ![p] = "h_insert"]
       ELSE /\ pc' = [pc EXCEPT ![p] = "h_patient_insert"]
            /\ UNCHANGED req
    /\ UNCHANGED <<now, result, offered, wrote, calls, env, salonTables, hospitalTables>>

\* INSERT INTO patient ... RETURNING pt_id
HPatientInsert(p) ==
    /\ pc[p] = "h_patient_insert"
    /\ patient' = Append(patient, req[p].account_id)
    /\ req' = [req EXCEPT ![p].pt_id = Len(patient) + 1]
    /\ pc' = [pc EXCEPT ![p] = "h_insert"]
    /\ UNCHANGED <<now, result, offered, wrote, calls, env, salonTables, appointment,
                   patient_account>>

\* HospitalService.create_appointment: the table after INSERT ... 'Booked'
CreateAppointment(account_id, pt_id, doc_id, d, t) ==
    IndexGuarded(Append(appointment,
        [account_id |-> account_id, pt_id |-> pt_id, doc_id |-> doc_id,
         date |-> d, time |-> t, app_status |-> "Booked"]))

\* 4. Insert Appointment: create_appointment returns an int or None, and
\* "app_id, error_msg = ..." raises TypeError on either; the except clause answers
HBookInsert(p) ==
    /\ pc[p] = "h_insert"
    /\ appointment' = CreateAppointment(req[p].account_id, req[p].pt_id, req[p].doc_id,
                                        req[p].date, req[p].start_time)
    /\ wrote' = [wrote EXCEPT ![p] = IF appointment' # appointment
                                     THEN Len(appointment) + 1 ELSE 0]
    /\ Finish(p, "went_wrong")
    /\ UNCHANGED <<now, offered, calls, env, salonTables, patient_account, patient>>

\* cancel_appointment up to the index check
HCancelStart(p, I) ==
    /\ agent = "hospital"
    /\ pc[p] = "idle"
    /\ CanStart
    /\ \E appointment_index \in I.indexes :
         /\ calls' = calls + 1
         /\ wrote' = [wrote EXCEPT ![p] = 0]
         /\ offered' = [offered EXCEPT ![p] = <<>>]
         /\ \E apps \in FindUpcomingAppointments(I.identity[p]) :
              IF apps = <<>> \/ appointment_index < 1 \/ appointment_index > Len(apps)
              THEN Finish(p, "booking_not_found")
              ELSE /\ req' = [req EXCEPT ![p] =
                          [NoReq EXCEPT !.op = "cancel",
                                        !.app_id = apps[appointment_index]]]
                   /\ pc' = [pc EXCEPT ![p] = "h_cancel_update"]
                   /\ result' = [result EXCEPT ![p] = "running"]
    /\ UNCHANGED <<now, env, salonTables, hospitalTables>>

\* cancel_appointment_by_id: UPDATE appointment SET app_status = 'Cancelled'
HCancelUpdate(p) ==
    /\ pc[p] = "h_cancel_update"
    /\ appointment' = [appointment EXCEPT ![req[p].app_id].app_status = "Cancelled"]
    /\ wrote' = [wrote EXCEPT ![p] = req[p].app_id]
    /\ Finish(p, "cancelled")
    /\ UNCHANGED <<now, offered, calls, env, salonTables, patient_account, patient>>

\* reschedule_appointment up to the resolved doctor; <<>> stands for no new_doctor_name
HRescheduleStart(p, I) ==
    /\ agent = "hospital"
    /\ pc[p] = "idle"
    /\ CanStart
    /\ \E appointment_index \in I.indexes, d \in I.dates, t \in I.times,
          new_doctor_name \in I.newdocs :
         /\ calls' = calls + 1
         /\ wrote' = [wrote EXCEPT ![p] = 0]
         /\ offered' = [offered EXCEPT ![p] = <<>>]
         /\ \E apps \in FindUpcomingAppointments(I.identity[p]) :
              IF apps = <<>> \/ appointment_index < 1 \/ appointment_index > Len(apps)
              THEN Finish(p, "booking_not_found")
              ELSE LET target_app == apps[appointment_index]
                       doc_name == IF new_doctor_name # <<>> THEN new_doctor_name
                                   ELSE DoctorName(appointment[target_app].doc_id)
                   IN  IF GetDoctorDetails(doc_name) = {}
                       THEN Finish(p, "doctor_not_found")
                       ELSE \E doc \in GetDoctorDetails(doc_name) :
                            /\ req' = [req EXCEPT ![p] =
                                   [NoReq EXCEPT !.op = "reschedule", !.app_id = target_app,
                                                 !.doc_id = doc, !.date = d,
                                                 !.start_time = t]]
                            /\ pc' = [pc EXCEPT ![p] = "h_reschedule_update"]
                            /\ result' = [result EXCEPT ![p] = "running"]
    /\ UNCHANGED <<now, env, salonTables, hospitalTables>>

\* update_appointment: UPDATE appointment SET doc_id, date_time, app_status =
\* 'Rescheduled'; the tool does not look at what the update returned
HRescheduleUpdate(p) ==
    /\ pc[p] = "h_reschedule_update"
    /\ appointment' = IndexGuarded(
           [appointment EXCEPT ![req[p].app_id].doc_id = req[p].doc_id,
                               ![req[p].app_id].date = req[p].date,
                               ![req[p].app_id].time = req[p].start_time,
                               ![req[p].app_id].app_status = "Rescheduled"])
    /\ wrote' = [wrote EXCEPT ![p] = req[p].app_id]
    /\ Finish(p, "rescheduled")
    /\ UNCHANGED <<now, offered, calls, env, salonTables, patient_account, patient>>

-----------------------------------------------------------------------------

Tick ==
    /\ now < 600 + 15 * MaxTicks
    /\ now' = now + 15
    /\ UNCHANGED <<bookings, customers, pc, req, result, offered, wrote, calls, env,
                   hospitalTables>>

\* the pool is lost, or its queries start to raise
DbGoesDown ==
    /\ db_up
    /\ db_up' = FALSE
    /\ UNCHANGED <<bookings, customers, now, pc, req, result, offered, wrote, calls,
                   agent, hospitalTables, otherParts>>

\* init_pool succeeds again
DbComesBack ==
    /\ ~db_up
    /\ db_up' = TRUE
    /\ UNCHANGED <<bookings, customers, now, pc, req, result, offered, wrote, calls,
                   agent, hospitalTables, otherParts>>

(* Health check: src/health_check.py *)

Components == {"database", "livekit", "deepgram", "openai", "cartesia"}

\* a component check returns a dict that says healthy, one that says unhealthy,
\* or raises
Outcomes == {"healthy", "unhealthy", "raised"}

NoHealth == [status |-> "none", checks |-> <<>>]

\* "x if not isinstance(x, Exception) else {"healthy": False, "error": str(x)}"
CheckEntry(outcome) ==
    IF outcome = "raised"
    THEN [healthy |-> FALSE, error |-> TRUE]
    ELSE [healthy |-> (outcome = "healthy"), error |-> (outcome # "healthy")]

\* the mutated verdict: one healthy component is enough
AllHealthy_Any(checks) == \E c \in DOMAIN checks : checks[c].healthy

\* all(check.get("healthy", False) for check in checks.values())
AllHealthy(checks) == \A c \in DOMAIN checks : checks[c].healthy

PerformHealthCheck ==
    /\ \E outcome \in [Components -> Outcomes] :
         LET checks == [c \in Components |-> CheckEntry(outcome[c])]
         IN  /\ probe' = outcome
             /\ health' = [status |-> IF AllHealthy(checks) THEN "healthy"
                                      ELSE "unhealthy",
                           checks |-> checks]
    /\ status_code' = 0
    /\ UNCHANGED besideHealth

\* get_health_status_code(health) for the result of the last check
GetHealthStatusCode ==
    /\ health # NoHealth
    /\ status_code' = IF health.status = "healthy" THEN 200 ELSE 503
    /\ UNCHANGED <<probe, health>>
    /\ UNCHANGED besideHealth

(* Agent registry: src/agents/registry.py *)

\* the agent types the modules register, as their characters
TypeClinic == <<"c", "l", "i", "n", "i", "c">>
TypeDefault == <<"d", "e", "f", "a", "u", "l", "t">>
TypeResort == <<"r", "e", "s", "o", "r", "t">>
TypeSpa == <<"s", "p", "a">>

\* @register_agent(...) of the three agent modules, in the order of
\* "from agents import hospital, hotel, salon"
ModuleOrder == <<"hospital", "hotel", "salon">>

Registrations(module) ==
    CASE module = "hospital" -> {<<TypeDefault, "HospitalAgent">>,
                                 <<TypeClinic, "HospitalAgent">>}
      [] module = "hotel" -> {<<TypeResort, "HotelAgent">>}
      [] OTHER -> {<<TypeSpa, "SalonAgent">>}

\* what a dispatcher may ask for
RequestedTypes ==
    { TypeClinic, TypeDefault, TypeResort, TypeSpa,
      <<" ", "S", "p", "a", " ">>, <<"S", "P", "A">>, <<"z", "o", "o">>,
      <<" ", "z", "o", "o">>, <<"L", "a", "b">>, <<>> }

\* str.strip() for blanks
RECURSIVE Strip(_)
Strip(w) ==
    IF w = <<>> THEN w
    ELSE IF Head(w) = " " THEN Strip(Tail(w))
    ELSE IF w[Len(w)] = " " THEN Strip(SubSeq(w, 1, Len(w) - 1))
    ELSE w

\* str.lower() over the letters the requests use
LowerType(w) ==
    [i \in 1 .. Len(w) |->
        CASE w[i] = "S" -> "s"
          [] w[i] = "P" -> "p"
          [] w[i] = "A" -> "a"
          [] w[i] = "L" -> "l"
          [] OTHER -> w[i]]

\* register_agent: _AGENT_REGISTRY[agent_type.lower()] = cls
RegisterAll(reg, pairs) ==
    [k \in DOMAIN reg \cup {LowerType(pr[1]) : pr \in pairs} |->
        IF \E pr \in pairs : LowerType(pr[1]) = k
        THEN (CHOOSE pr \in pairs : LowerType(pr[1]) = k)[2]
        ELSE reg[k]]

NextModule(module) ==
    IF \E k \in 1 .. (Len(ModuleOrder) - 1) : ModuleOrder[k] = module
    THEN ModuleOrder[(CHOOSE k \in 1 .. Len(ModuleOrder) : ModuleOrder[k] = module) + 1]
    ELSE "done"

\* _load_agents: the import of the next module runs its decorators
LoadAgent ==
    /\ loading # "done"
    /\ registry' = RegisterAll(registry, Registrations(loading))
    /\ loading' = NextModule(loading)
    /\ UNCHANGED <<requested, lookup>>
    /\ UNCHANGED besideRegistry

\* _load_agents: ImportError, "Some agents failed to load"
LoadFails ==
    /\ loading # "done"
    /\ loading' = "done"
    /\ UNCHANGED <<registry, requested, lookup>>
    /\ UNCHANGED besideRegistry

\* the mutated lookup: no fallback
GetAgentClassResult_Strict(agent_type) ==
    LET key == Strip(LowerType(agent_type))
    IN  IF key \in DOMAIN registry THEN registry[key] ELSE "ValueError"

\* get_agent_class: the class returned, or "ValueError"
GetAgentClassResult(agent_type) ==
    LET key == Strip(LowerType(agent_type))
    IN  IF key \in DOMAIN registry THEN registry[key]
        ELSE IF TypeDefault \in DOMAIN registry THEN registry[TypeDefault]
        ELSE "ValueError"

GetAgentClass ==
    /\ loading = "done"
    /\ \E agent_type \in RequestedTypes :
         /\ requested' = agent_type
         /\ lookup' = GetAgentClassResult(agent_type)
    /\ UNCHANGED <<registry, loading>>
    /\ UNCHANGED besideRegistry

(* OTP service: src/tools/otp_service.py *)

MaxOtpTicks == 3
OtpTickSeconds == 120
ExpirySeconds == 300
MaxAttempts == 3
ResendSeconds == 60

Emails == {"a@x", "b@x"}
Codes == {"111111", "222222"}

NoOtp == [otp |-> <<>>, created_at |-> 0, attempts |-> 0]
NoOtpLog == [issued |-> "none", wrong |-> 0, failed |-> 0, verified |-> FALSE]
NoOtpCall == [email |-> "none", user_otp |-> "none", answer |-> FALSE,
              failed_before |-> 0, verified_before |-> FALSE]

\* _hash_otp: SHA256 digests of distinct codes are distinct
HashOtp(otp) == <<"sha256", otp>>

\* generate_otp stores a fresh entry; `otp` is what secrets.choice drew
GenerateOtpInto(email, otp) ==
    /\ otp_store' = [otp_store EXCEPT ![email] =
            [otp |-> HashOtp(otp), created_at |-> otp_clock, attempts |-> 0]]
    /\ otp_log' = [otp_log EXCEPT ![email] =
            [issued |-> otp, wrong |-> 0, failed |-> 0, verified |-> FALSE]]

GenerateOtp ==
    /\ \E email \in Emails, otp \in Codes : GenerateOtpInto(email, otp)
    /\ UNCHANGED <<otp_clock, otp_call>>
    /\ UNCHANGED besideOtp

\* the mutated limit: one attempt more
AttemptsExceeded_OneMore(stored) == stored.attempts > MaxAttempts

\* "if stored['attempts'] >= self.max_attempts"
AttemptsExceeded(stored) == stored.attempts >= MaxAttempts

Expired(stored) == otp_clock - stored.created_at > ExpirySeconds

\* verify_otp: TRUE, or FALSE with the reason
VerifyOutcome(email, user_otp) ==
    LET stored == otp_store[email]
    IN  IF stored = NoOtp THEN "no_otp"
        ELSE IF Expired(stored) THEN "expired"
        ELSE IF AttemptsExceeded(stored) THEN "exceeded"
        ELSE IF HashOtp(user_otp) = stored.otp THEN "verified"
        ELSE "wrong"

VerifyOtp ==
    /\ \E email \in Emails, user_otp \in Codes :
         LET outcome == VerifyOutcome(email, user_otp)
             log == otp_log[email]
         IN  /\ otp_store' =
                    IF outcome = "no_otp" THEN otp_store
                    ELSE IF outcome = "wrong"
                    THEN [otp_store EXCEPT ![email].attempts = @ + 1]
                    ELSE [otp_store EXCEPT ![email] = NoOtp]
             /\ otp_call' = [email |-> email, user_otp |-> user_otp,
                             answer |-> (outcome = "verified"),
                             failed_before |-> log.failed,
                             verified_before |-> log.verified]
             /\ otp_log' = [otp_log EXCEPT ![email] =
                    [issued |-> log.issued,
                     wrong |-> IF outcome \in {"verified", "wrong"}
                                  /\ HashOtp(user_otp) # HashOtp(log.issued)
                               THEN log.wrong + 1 ELSE log.wrong,
                     failed |-> IF outcome = "verified" THEN log.failed
                                ELSE Min(log.failed + 1, MaxAttempts + 1),
                     verified |-> log.verified \/ outcome = "verified"]]
    /\ UNCHANGED otp_clock
    /\ UNCHANGED besideOtp

\* resend_otp: None within a minute of the pending OTP, else generate_otp
ResendOtp ==
    /\ \E email \in Emails, otp \in Codes :
         IF otp_store[email] # NoOtp
            /\ otp_clock - otp_store[email].created_at < ResendSeconds
         THEN UNCHANGED <<otp_store, otp_log>>
         ELSE GenerateOtpInto(email, otp)
    /\ UNCHANGED <<otp_clock, otp_call>>
    /\ UNCHANGED besideOtp

ClearOtp ==
    /\ \E email \in Emails :
         /\ otp_store[email] # NoOtp
         /\ otp_store' = [otp_store EXCEPT ![email] = NoOtp]
    /\ UNCHANGED <<otp_clock, otp_log, otp_call>>
    /\ UNCHANGED besideOtp

OtpTick ==
    /\ otp_clock < MaxOtpTicks * OtpTickSeconds
    /\ otp_clock' = otp_clock + OtpTickSeconds
    /\ UNCHANGED <<otp_store, otp_log, otp_call>>
    /\ UNCHANGED besideOtp

(* Metrics collector: src/logging_config.py *)

MaxLatencyCalls == 102
MaxEventCalls == 52
LatencyLimit == 100
EventLimit == 50

Operations == {"db_query", "llm"}
EventTypes == {"error"}

\* the mutated trimming: the oldest entries are kept
KeepLast_Oldest(list, limit) ==
    IF Len(list) > limit THEN SubSeq(list, 1, limit) ELSE list

\* "if len(l) > limit: l = l[-limit:]"
KeepLast(list, limit) ==
    IF Len(list) > limit
    THEN SubSeq(list, Len(list) - limit + 1, Len(list))
    ELSE list

\* dict[key] with "if key not in dict: dict[key] = []"
EntriesOf(dict, key) == IF key \in DOMAIN dict THEN dict[key] ELSE <<>>

Put(dict, key, list) ==
    [k \in DOMAIN dict \cup {key} |-> IF k = key THEN list ELSE dict[k]]

Calls(counts) ==
    LET RECURSIVE Sum(_)
        Sum(S) == IF S = {} THEN 0
                  ELSE LET k == CHOOSE k \in S : TRUE
                       IN  counts[k] + Sum(S \ {k})
    IN  Sum(DOMAIN counts)

\* record_latency; the measurements of an operation are numbered as they are
\* recorded, as in test_metrics_collector_limits_history
RecordLatency ==
    /\ Calls(recorded.latency) < MaxLatencyCalls
    /\ \E operation \in Operations :
         LET nth == recorded.latency[operation] + 1
             list == Append(EntriesOf(metrics.latency, operation), [value |-> nth])
         IN  /\ metrics' = [metrics EXCEPT !.latency =
                    Put(@, operation, KeepLast(list, LatencyLimit))]
             /\ recorded' = [recorded EXCEPT !.latency[operation] = nth]
    /\ UNCHANGED besideMetrics

\* record_event, its details numbered in the same way
RecordEvent ==
    /\ Calls(recorded.events) < MaxEventCalls
    /\ \E event_type \in EventTypes :
         LET nth == recorded.events[event_type] + 1
             list == Append(EntriesOf(metrics.events, event_type), [value |-> nth])
         IN  /\ metrics' = [metrics EXCEPT !.events =
                    Put(@, event_type, KeepLast(list, EventLimit))]
             /\ recorded' = [recorded EXCEPT !.events[event_type] = nth]
    /\ UNCHANGED besideMetrics

(* DatabaseConnection.initialize: src/database/connection.py *)

MaxInitCalls == 3
DefaultMaxRetries == 3

\* the coroutines that call initialize(): MemoryService.initialize and
\* check_database of the health check
InitCallers == 1 .. 2
RetryChoices == {0, 1, DefaultMaxRetries}

NoConn == [made |-> FALSE, enabled |-> FALSE, pool |-> 0, initialized |-> FALSE,
           pools_created |-> 0, calls |-> 0]
IdleTask == [at |-> "idle", attempt |-> 0, max_retries |-> 0, created |-> 0]
NoRet == [value |-> "none", connected |-> FALSE, pool |-> 0, attempts |-> 0,
          max_retries |-> 0, created |-> 0, tested |-> FALSE, was_initialized |-> FALSE]

\* is_connected
IsConnected(c) == c.initialized /\ c.pool # 0

\* __init__: database_url and ASYNCPG_AVAILABLE decide is_enabled
ConstructConnection ==
    /\ ~conn.made
    /\ \E enabled \in BOOLEAN : conn' = [NoConn EXCEPT !.made = TRUE, !.enabled = enabled]
    /\ UNCHANGED <<init_task, init_ret>>
    /\ UNCHANGED besideConn

\* what a returning call leaves for its caller
Returned(k, value, c, task, tested) ==
    [value |-> value, connected |-> IsConnected(c), pool |-> c.pool,
     attempts |-> task.attempt, max_retries |-> task.max_retries,
     created |-> task.created, tested |-> tested, was_initialized |-> FALSE]

\* initialize() up to the first await
InitializeStart(k) ==
    /\ conn.made
    /\ init_task[k].at = "idle"
    /\ conn.calls < MaxInitCalls
    /\ \E max_retries \in RetryChoices :
         LET called == [conn EXCEPT !.calls = @ + 1]
             task == [IdleTask EXCEPT !.max_retries = max_retries]
         IN  /\ conn' = called
             /\ IF conn.initialized
                THEN /\ init_ret' = [init_ret EXCEPT ![k] =
                            [Returned(k, "True", called, task, FALSE)
                                EXCEPT !.was_initialized = TRUE]]
                     /\ init_task' = [init_task EXCEPT ![k] = IdleTask]
                ELSE IF ~conn.enabled \/ max_retries = 0
                THEN /\ init_ret' = [init_ret EXCEPT ![k] =
                            Returned(k, "False", called, task, FALSE)]
                     /\ init_task' = [init_task EXCEPT ![k] = IdleTask]
                ELSE /\ init_ret' = [init_ret EXCEPT ![k] = NoRet]
                     /\ init_task' = [init_task EXCEPT ![k] =
                            [task EXCEPT !.at = "create_pool", !.attempt = 1]]
    /\ UNCHANGED besideConn

\* "except Exception": sleep and try again, or give the pool up and return False
AfterFailure(k, c) ==
    LET task == init_task[k]
        given_up == [c EXCEPT !.pool = 0]
    IN  IF task.attempt < task.max_retries
        THEN /\ conn' = c
             /\ init_task' = [init_task EXCEPT ![k] =
                    [task EXCEPT !.at = "create_pool", !.attempt = @ + 1]]
             /\ UNCHANGED init_ret
        ELSE /\ conn' = given_up
             /\ init_ret' = [init_ret EXCEPT ![k] =
                    Returned(k, "False", given_up, task, FALSE)]
             /\ init_task' = [init_task EXCEPT ![k] = IdleTask]

\* self._pool = await asyncpg.create_pool(...): a pool, or an exception
CreatePool(k) ==
    /\ init_task[k].at = "create_pool"
    /\ \E created \in BOOLEAN :
         IF created
         THEN /\ conn' = [conn EXCEPT !.pool = conn.pools_created + 1,
                                       !.pools_created = @ + 1]
              /\ init_task' = [init_task EXCEPT ![k].at = "test_query",
                                                 ![k].created = @ + 1]
              /\ UNCHANGED init_ret
         ELSE AfterFailure(k, conn)
    /\ UNCHANGED besideConn

\* async with self._pool.acquire() as conn: await conn.fetchval("SELECT 1")
TestQuery(k) ==
    /\ init_task[k].at = "test_query"
    /\ \E succeeded \in BOOLEAN :
         IF succeeded
         THEN LET c == [conn EXCEPT !.initialized = TRUE]
              IN  /\ conn' = c
                  /\ init_ret' = [init_ret EXCEPT ![k] =
                         Returned(k, "True", c, init_task[k], TRUE)]
                  /\ init_task' = [init_task EXCEPT ![k] = IdleTask]
         ELSE AfterFailure(k, conn)
    /\ UNCHANGED besideConn

Init ==
    /\ announced = [ph \in Phones |-> <<>>]
    /\ conn = NoConn
    /\ init_task = [k \in InitCallers |-> IdleTask]
    /\ init_ret = [k \in InitCallers |-> NoRet]
    /\ metrics = [latency |-> <<>>, events |-> <<>>]
    /\ recorded = [latency |-> [o \in Operations |-> 0],
                   events |-> [t \in EventTypes |-> 0]]
    /\ otp_store = [e \in Emails |-> NoOtp]
    /\ otp_clock = 0
    /\ otp_log = [e \in Emails |-> NoOtpLog]
    /\ otp_call = NoOtpCall
    /\ registry = <<>>
    /\ loading = ModuleOrder[1]
    /\ requested = <<>>
    /\ lookup = "none"
    /\ probe = [c \in Components |-> "healthy"]
    /\ health = NoHealth
    /\ status_code = 0
    /\ bookings = <<>>
    /\ customers = <<>>
    /\ now = 600
    /\ pc = [p \in Procs |-> "idle"]
    /\ req = [p \in Procs |-> NoReq]
    /\ result = [p \in Procs |-> "none"]
    /\ offered = [p \in Procs |-> <<>>]
    /\ wrote = [p \in Procs |-> 0]
    /\ calls = 0
    /\ agent \in Agents
    /\ appointment = <<>>
    /\ patient_account = <<>>
    /\ patient = <<>>
    /\ db_up = TRUE

\* inputs of the concurrent callers
Narrow ==
    [frags |-> {<<"l", "e", "e">>, <<"z">>}, services |-> {"cut", "wax"},
     dates |-> {Today}, times |-> Times, phones |-> {"5550000001"},
     indexes |-> 1 .. MaxBookings, lists |-> {<<"cut">>, <<"wax">>},
     docfrags |-> {<<"s", "e", "n">>, <<"z">>}, newdocs |-> {<<>>},
     identity |-> [p \in Procs |-> CallerIdentity(p)]]

\* inputs of a single caller
Wide ==
    [frags |-> Fragments, services |-> ServiceNames, dates |-> Dates,
     times |-> Times, phones |-> Phones, indexes |-> 1 .. MaxBookings,
     queries |-> {[kind |-> "morning", at |-> 0], [kind |-> "afternoon", at |-> 0],
                  [kind |-> "any", at |-> 0]}
                 \cup {[kind |-> "at", at |-> t] : t \in Times},
     durations |-> {30, 45}]

Next ==
    \/ \E p \in Procs : BookStart(p, Narrow)
    \/ \E p \in Procs : BookCheck(p)
    \/ \E p \in Procs : BookCustomerSelect(p)
    \/ \E p \in Procs : BookCustomerInsert(p)
    \/ \E p \in Procs : BookInsert(p)
    \/ \E p \in Procs : CancelStart(p, Narrow)
    \/ \E p \in Procs : CancelUpdate(p)
    \/ \E p \in Procs : RescheduleStart(p, Narrow)
    \/ \E p \in Procs : RescheduleUpdate(p)
    \/ \E p \in Procs : LgCreateStart(p, Narrow)
    \/ \E p \in Procs : LgCreateCheck(p)
    \/ \E p \in Procs : LgCreateInsert(p)
    \/ \E p \in Procs : LgCancelStart(p, Narrow)
    \/ \E p \in Procs : LgCancelUpdate(p)
    \/ \E p \in Procs : LgRescheduleStart(p, Narrow)
    \/ \E p \in Procs : LgRescheduleCheck(p)
    \/ \E p \in Procs : LgRescheduleUpdate(p)
    \/ \E p \in Procs : HBookStart(p, Narrow)
    \/ \E p \in Procs : HAccountSelect(p)
    \/ \E p \in Procs : HAccountInsert(p)
    \/ \E p \in Procs : HAccountReselect(p)
    \/ \E p \in Procs : HPatientSelect(p)
    \/ \E p \in Procs : HPatientInsert(p)
    \/ \E p \in Procs : HBookInsert(p)
    \/ \E p \in Procs : HCancelStart(p, Narrow)
    \/ \E p \in Procs : HCancelUpdate(p)
    \/ \E p \in Procs : HRescheduleStart(p, Narrow)
    \/ \E p \in Procs : HRescheduleUpdate(p)

Spec == Init /\ [][Next]_vars

\* one caller, one tool call after the other, while the clock runs
NextCalendar ==
    \/ BookStart(1, Wide)
    \/ BookCheck(1)
    \/ BookCustomerSelect(1)
    \/ BookCustomerInsert(1)
    \/ BookInsert(1)
    \/ CancelStart(1, Wide)
    \/ CancelUpdate(1)
    \/ RescheduleStart(1, Wide)
    \/ RescheduleUpdate(1)
    \/ FindAvailability(1, Wide)
    \/ Tick

SpecCalendar == Init /\ [][NextCalendar]_vars


\* two callers that only book
NextRace ==
    \/ \E p \in Procs : BookStart(p, Narrow)
    \/ \E p \in Procs : BookCheck(p)
    \/ \E p \in Procs : BookCustomerSelect(p)
    \/ \E p \in Procs : BookCustomerInsert(p)
    \/ \E p \in Procs : BookInsert(p)

SpecRace == Init /\ [][NextRace]_vars

\* one salon caller while the database comes and goes
NextOutage ==
    \/ BookStart(1, Narrow)
    \/ BookCheck(1)
    \/ BookCustomerSelect(1)
    \/ BookCustomerInsert(1)
    \/ BookInsert(1)
    \/ FindMyBookings(1, Narrow)
    \/ CancelStart(1, Narrow)
    \/ CancelUpdate(1)
    \/ RescheduleStart(1, Narrow)
    \/ RescheduleUpdate(1)
    \/ FindAvailability(1, Wide)
    \/ DbGoesDown
    \/ DbComesBack

SpecOutage == Init /\ [][NextOutage]_vars

\* a caller who always names the first booking of the list
Repeat == [Narrow EXCEPT !.indexes = {1}]

\* one caller who books and cancels, one tool call after the other
NextRepeat ==
    \/ BookStart(1, Repeat)
    \/ BookCheck(1)
    \/ BookCustomerSelect(1)
    \/ BookCustomerInsert(1)
    \/ BookInsert(1)
    \/ CancelStart(1, Repeat)
    \/ CancelUpdate(1)
    \/ HBookStart(1, Repeat)
    \/ HAccountSelect(1)
    \/ HAccountInsert(1)
    \/ HAccountReselect(1)
    \/ HPatientSelect(1)
    \/ HPatientInsert(1)
    \/ HBookInsert(1)
    \/ HCancelStart(1, Repeat)
    \/ HCancelUpdate(1)

SpecRepeat == Init /\ [][NextRepeat]_vars

\* what a caller who looks for a stylist may ask
Catalog == [servicelists |-> ServiceLists]

\* one caller who asks which stylists do the services and books
NextCatalog ==
    \/ StylistSearch(1, Catalog)
    \/ BookStart(1, Narrow)
    \/ BookCheck(1)
    \/ BookCustomerSelect(1)
    \/ BookCustomerInsert(1)
    \/ BookInsert(1)

SpecCatalog == Init /\ [][NextCatalog]_vars

\* 23:15, 23:30, 23:45
LateTimes == {MinutesPerDay - 45, MinutesPerDay - 30, MinutesPerDay - 15}

\* a caller who asks for the last slots of the day
Late == [Narrow EXCEPT !.times = LateTimes]

\* one caller who books and reschedules late in the evening
NextLate ==
    \/ BookStart(1, Late)
    \/ BookCheck(1)
    \/ BookCustomerSelect(1)
    \/ BookCustomerInsert(1)
    \/ BookInsert(1)
    \/ RescheduleStart(1, Late)
    \/ RescheduleUpdate(1)

SpecLate == Init /\ [][NextLate]_vars

\* the health endpoint is asked again and again
NextHealth ==
    \/ PerformHealthCheck
    \/ GetHealthStatusCode

SpecHealth == Init /\ [][NextHealth]_vars

\* the agent modules are imported, then the dispatcher looks agent types up
NextRegistry ==
    \/ LoadAgent
    \/ LoadFails
    \/ GetAgentClass

SpecRegistry == Init /\ [][NextRegistry]_vars

\* OTPs are generated, verified, resent and cleared while time passes
NextOtp ==
    \/ GenerateOtp
    \/ VerifyOtp
    \/ ResendOtp
    \/ ClearOtp
    \/ OtpTick

SpecOtp == Init /\ [][NextOtp]_vars

\* latencies and events are recorded in any order
NextMetrics ==
    \/ RecordLatency
    \/ RecordEvent

SpecMetrics == Init /\ [][NextMetrics]_vars

\* the connection is constructed and its callers initialize it
NextConnect ==
    \/ ConstructConnection
    \/ \E k \in InitCallers : InitializeStart(k)
    \/ \E k \in InitCallers : CreatePool(k)
    \/ \E k \in InitCallers : TestQuery(k)

SpecConnect == Init /\ [][NextConnect]_vars

\* two tool calls of one caller: both tasks carry the caller identity of task 1
SameCaller == [Narrow EXCEPT !.identity = [p \in Procs |-> CallerIdentity(1)]]

\* one hospital caller books, and cancels and reschedules in overlapping calls
NextSameCaller ==
    \/ HBookStart(1, SameCaller)
    \/ HAccountSelect(1)
    \/ HAccountInsert(1)
    \/ HAccountReselect(1)
    \/ HPatientSelect(1)
    \/ HPatientInsert(1)
    \/ HBookInsert(1)
    \/ \E p \in Procs : HCancelStart(p, SameCaller)
    \/ \E p \in Procs : HCancelUpdate(p)
    \/ \E p \in Procs : HRescheduleStart(p, SameCaller)
    \/ \E p \in Procs : HRescheduleUpdate(p)

SpecSameCaller == Init /\ [][NextSameCaller]_vars

\* a customer lists the bookings and names one by its number, while bookings
\* of the same phone are made
NextListing ==
    \/ \E p \in Procs : BookStart(p, Narrow)
    \/ \E p \in Procs : BookCheck(p)
    \/ \E p \in Procs : BookCustomerSelect(p)
    \/ \E p \in Procs : BookCustomerInsert(p)
    \/ \E p \in Procs : BookInsert(p)
    \/ FindMyBookings(1, Narrow)
    \/ CancelStart(1, Narrow)
    \/ CancelUpdate(1)
    \/ RescheduleStart(1, Narrow)
    \/ RescheduleUpdate(1)

SpecListing == Init /\ [][NextListing]_vars

\* callers with different phones, and indexes outside every list
Owners ==
    [Narrow EXCEPT !.frags = {<<"l", "e", "e">>}, !.services = {"cut"},
                   !.times = {600, 630}, !.phones = Phones,
                   !.indexes = 0 .. MaxBookings + 1,
                   !.docfrags = {<<"s", "e", "n">>}]

\* customers of both agents book, cancel and reschedule
NextOwners ==
    \/ BookStart(1, Owners)
    \/ BookCheck(1)
    \/ BookCustomerSelect(1)
    \/ BookCustomerInsert(1)
    \/ BookInsert(1)
    \/ \E p \in Procs : CancelStart(p, Owners)
    \/ \E p \in Procs : CancelUpdate(p)
    \/ \E p \in Procs : RescheduleStart(p, Owners)
    \/ \E p \in Procs : RescheduleUpdate(p)
    \/ \E p \in Procs : HBookStart(p, Owners)
    \/ \E p \in Procs : HAccountSelect(p)
    \/ \E p \in Procs : HAccountInsert(p)
    \/ \E p \in Procs : HAccountReselect(p)
    \/ \E p \in Procs : HPatientSelect(p)
    \/ \E p \in Procs : HPatientInsert(p)
    \/ \E p \in Procs : HBookInsert(p)
    \/ \E p \in Procs : HCancelStart(p, Owners)
    \/ \E p \in Procs : HCancelUpdate(p)
    \/ \E p \in Procs : HRescheduleStart(p, Owners)
    \/ \E p \in Procs : HRescheduleUpdate(p)

SpecOwners == Init /\ [][NextOwners]_vars

\* a caller who asks for openings and then books, cancels or moves
Reads ==
    [frags |-> {<<"l", "e", "e">>}, services |-> {"cut"}, dates |-> {Today},
     times |-> {600, 630}, phones |-> {"5550000001"}, indexes |-> {1},
     queries |-> {[kind |-> "morning", at |-> 0]}, durations |-> {30},
     docfrags |-> {<<"s", "e", "n">>}, newdocs |-> {<<>>},
     befores |-> {0, 630}, afters |-> {0, 600},
     identity |-> [p \in Procs |-> CallerIdentity(p)]]

\* one caller whose availability questions alternate with writes, while the
\* clock runs
NextReads ==
    \/ FindAvailability(1, Reads)
    \/ BookStart(1, Reads)
    \/ BookCheck(1)
    \/ BookCustomerSelect(1)
    \/ BookCustomerInsert(1)
    \/ BookInsert(1)
    \/ CancelStart(1, Reads)
    \/ CancelUpdate(1)
    \/ RescheduleStart(1, Reads)
    \/ RescheduleUpdate(1)
    \/ CheckDoctorAvailability(1, Reads)
    \/ HBookStart(1, Reads)
    \/ HAccountSelect(1)
    \/ HAccountInsert(1)
    \/ HAccountReselect(1)
    \/ HPatientSelect(1)
    \/ HPatientInsert(1)
    \/ HBookInsert(1)
    \/ HCancelStart(1, Reads)
    \/ HCancelUpdate(1)
    \/ HRescheduleStart(1, Reads)
    \/ HRescheduleUpdate(1)
    \/ Tick

SpecReads == Init /\ [][NextReads]_vars

\* a hospital caller who asks for today and tomorrow
Clinic == [Reads EXCEPT !.dates = {0, 1}, !.befores = {0}, !.afters = {0}]

\* one hospital caller asks for the doctor's slots, books, reschedules and cancels
NextClinic ==
    \/ CheckDoctorAvailability(1, Clinic)
    \/ HBookStart(1, Clinic)
    \/ HAccountSelect(1)
    \/ HAccountInsert(1)
    \/ HAccountReselect(1)
    \/ HPatientSelect(1)
    \/ HPatientInsert(1)
    \/ HBookInsert(1)
    \/ HCancelStart(1, Clinic)
    \/ HCancelUpdate(1)
    \/ HRescheduleStart(1, Clinic)
    \/ HRescheduleUpdate(1)

SpecClinic == Init /\ [][NextClinic]_vars

-----------------------------------------------------------------------------
(* Properties *)

\* half-open interval overlap of a row with [start, end)
Overlaps(b, start, end) == b.start_time < end /\ b.end_time > start

\* C1: no two bookings of one stylist and date with status confirmed or pending
\* have overlapping [start_time, end_time) intervals
C1_NoDoubleBooking ==
    \A i, j \in BookingIds :
        (/\ i # j
         /\ Occupying(bookings[i]) /\ Occupying(bookings[j])
         /\ bookings[i].stylist_id = bookings[j].stylist_id
         /\ bookings[i].booking_date = bookings[j].booking_date)
        => ~Overlaps(bookings[i], bookings[j].start_time, bookings[j].end_time)

\* C2: of two book_appointment calls for the identical stylist, date and start
\* time at most one is confirmed, and the ledger holds at most one occupying
\* booking for that stylist, date and start time
C2_ExactlyOneWins ==
    /\ \A p, q \in Procs :
          (/\ p # q
           /\ pc[p] = "idle" /\ pc[q] = "idle"
           /\ result[p] = "confirmed" /\ result[q] = "confirmed")
          => ~(/\ bookings[wrote[p]].stylist_id = bookings[wrote[q]].stylist_id
               /\ bookings[wrote[p]].booking_date = bookings[wrote[q]].booking_date
               /\ bookings[wrote[p]].start_time = bookings[wrote[q]].start_time)
    /\ \A i, j \in BookingIds :
          (/\ i # j
           /\ Occupying(bookings[i]) /\ Occupying(bookings[j])
           /\ bookings[i].stylist_id = bookings[j].stylist_id
           /\ bookings[i].booking_date = bookings[j].booking_date)
          => bookings[i].start_time # bookings[j].start_time

\* business hours of a date: closed when there is no row or the row says so
HoursClosed(d) == GetSalonHours(d) = {} \/ \E h \in GetSalonHours(d) : h.is_closed

WithinHours(d, start, end) ==
    \E h \in GetSalonHours(d) :
        ~h.is_closed /\ h.open_time <= start /\ start < end /\ end <= h.close_time

WithinShift(s, d, start, end) ==
    \E sh \in ShiftRows(d, s) :
        sh.start_time <= start /\ start < end /\ end <= sh.end_time

\* C3: every booking lies within the business hours of its date and within
\* the shift its stylist has on that date
C3_ShiftContainment ==
    \A i \in BookingIds :
        Occupying(bookings[i]) =>
            /\ WithinHours(bookings[i].booking_date, bookings[i].start_time,
                           bookings[i].end_time)
            /\ WithinShift(bookings[i].stylist_id, bookings[i].booking_date,
                           bookings[i].start_time, bookings[i].end_time)

\* the new interval of the reschedule task p suspended before its UPDATE meets an
\* occupying booking other than its target
RescheduleConflict(p) ==
    \E j \in BookingIds :
        /\ j # req[p].booking_id
        /\ Occupying(bookings[j])
        /\ bookings[j].stylist_id = bookings[req[p].booking_id].stylist_id
        /\ bookings[j].booking_date = req[p].date
        /\ Overlaps(bookings[j], req[p].start_time, req[p].end_time)

\* C4: a reschedule whose new interval overlaps another occupying booking is
\* rejected and leaves the rescheduled booking as it was
C4_ConflictingRescheduleRejected ==
    [][\A p \in Procs :
          (pc[p] = "reschedule_update" /\ pc'[p] = "idle" /\ RescheduleConflict(p))
          => /\ result'[p] # "rescheduled"
             /\ bookings'[req[p].booking_id] = bookings[req[p].booking_id]]_vars

\* the interval of the book task p meets an occupying booking of its stylist and date
BookConflict(p) ==
    \E i \in BookingIds :
        /\ Occupying(bookings[i])
        /\ bookings[i].stylist_id = req[p].stylist_id
        /\ bookings[i].booking_date = req[p].date
        /\ Overlaps(bookings[i], req[p].start_time, req[p].end_time)

\* the book task p asks for exactly what a cancelled booking held, and no
\* occupying booking overlaps it
SalonReleased(p) ==
    /\ \E i \in BookingIds :
          /\ bookings[i].status = "cancelled"
          /\ bookings[i].stylist_id = req[p].stylist_id
          /\ bookings[i].booking_date = req[p].date
          /\ bookings[i].start_time = req[p].start_time
          /\ bookings[i].end_time = req[p].end_time
    /\ ~BookConflict(p)

\* the same for the hospital: a Cancelled appointment of that doctor at that
\* date and time, and no other appointment of the doctor there
HospitalReleased(p) ==
    /\ \E i \in AppIds :
          /\ appointment[i].app_status = "Cancelled"
          /\ appointment[i].doc_id = req[p].doc_id
          /\ appointment[i].date = req[p].date
          /\ appointment[i].time = req[p].start_time
    /\ \A j \in AppIds :
          (/\ appointment[j].doc_id = req[p].doc_id
           /\ appointment[j].date = req[p].date
           /\ appointment[j].time = req[p].start_time)
          => appointment[j].app_status = "Cancelled"

\* C5: a book request for exactly the resource, date and time of a cancelled
\* booking, with nothing else occupying them, passes the availability check and
\* is answered with a confirmation, in the salon and in the hospital
C5_CancelReleasesCapacity ==
    [][\A p \in Procs :
          /\ (pc[p] = "check" /\ pc'[p] # "check" /\ SalonReleased(p))
             => pc'[p] = "cust_select"
          /\ (pc[p] = "insert" /\ pc'[p] = "idle")
             => (result'[p] = "confirmed" /\ Len(bookings') = Len(bookings) + 1)
          /\ (pc[p] = "h_insert" /\ pc'[p] = "idle" /\ HospitalReleased(p))
             => (result'[p] = "confirmed"
                 /\ Len(appointment') = Len(appointment) + 1)]_vars

\* the parts of [old_start, old_end) that [new_start, new_end) leaves are not
\* held by row b
OldPartFree(b, stylist_id, d, old_start, old_end, new_start, new_end, occupying) ==
    LET Holds(a, z) == /\ b.stylist_id = stylist_id /\ b.booking_date = d
                       /\ b.status \in occupying
                       /\ Overlaps(b, a, z)
    IN  /\ (new_start > old_start => ~Holds(old_start, Min(new_start, old_end)))
        /\ (new_end < old_end => ~Holds(Max(new_end, old_start), old_end))

\* the new interval of the reschedule task p, for stylist s, is a shifted one
\* that overlaps the previous interval of its own booking and no other
\* occupying booking
ShiftOverOwn(p, s, occupying) ==
    LET id == req[p].booking_id
    IN  /\ bookings[id].status \in occupying
        /\ bookings[id].stylist_id = s
        /\ bookings[id].booking_date = req[p].date
        /\ Overlaps(bookings[id], req[p].start_time, req[p].end_time)
        /\ req[p].start_time # bookings[id].start_time
        /\ \A j \in BookingIds \ {id} :
              ~(/\ bookings[j].status \in occupying
                /\ bookings[j].stylist_id = s
                /\ bookings[j].booking_date = req[p].date
                /\ Overlaps(bookings[j], req[p].start_time, req[p].end_time))

\* the update of task p moved its booking in place and freed what it left
MovedInPlace(p, s, occupying) ==
    LET id == req[p].booking_id
    IN  /\ result'[p] = "rescheduled"
        /\ Len(bookings') = Len(bookings)
        /\ bookings'[id] = [bookings[id] EXCEPT !.stylist_id = s,
                                                 !.booking_date = req[p].date,
                                                 !.start_time = req[p].start_time,
                                                 !.end_time = req[p].end_time]
        /\ \A j \in BookingIds \ {id} : bookings'[j] = bookings[j]
        /\ OldPartFree(bookings'[id], s, req[p].date,
                       bookings[id].start_time, bookings[id].end_time,
                       req[p].start_time, req[p].end_time, occupying)

\* C6: a reschedule to a shifted interval that overlaps only the previous
\* interval of the booking itself is not rejected; its update moves the same
\* row to the new time and leaves the rest of the old interval free; and
\* check_slot_available with the booking excluded reports such an interval free
C6_RescheduleSelfExclusion ==
    /\ [][\A p \in Procs :
             /\ (pc[p] = "reschedule_update" /\ pc'[p] # pc[p]
                 /\ ShiftOverOwn(p, bookings[req[p].booking_id].stylist_id,
                                 {"confirmed", "pending"}))
                => MovedInPlace(p, bookings[req[p].booking_id].stylist_id,
                                {"confirmed", "pending"})
             /\ (pc[p] = "lg_reschedule_check" /\ pc'[p] # pc[p]
                 /\ ShiftOverOwn(p, req[p].stylist_id, {"CONFIRMED", "PENDING"}))
                => pc'[p] = "lg_reschedule_update"
             /\ (pc[p] = "lg_reschedule_update" /\ pc'[p] # pc[p]
                 /\ ShiftOverOwn(p, req[p].stylist_id, {"CONFIRMED", "PENDING"}))
                => MovedInPlace(p, req[p].stylist_id, {"CONFIRMED", "PENDING"})]_vars
    /\ [](\A p \in Procs :
             (req[p].op = "reschedule" /\ agent = "salon"
              /\ ShiftOverOwn(p, bookings[req[p].booking_id].stylist_id,
                              {"confirmed", "pending"}))
             => CheckSlotAvailable(bookings[req[p].booking_id].stylist_id, req[p].date,
                                   req[p].start_time, req[p].end_time,
                                   req[p].booking_id))

\* the conflict check of the LangGraph reschedule has let through a shift of
\* the only booking over its own interval
C6_Witness ==
    \E p \in Procs :
        /\ pc[p] = "lg_reschedule_update"
        /\ calls = 2
        /\ Len(bookings) = 1
        /\ ShiftOverOwn(p, req[p].stylist_id, {"CONFIRMED", "PENDING"})

\* C7: no slot of today at or before the current time is named in an
\* availability answer, and a book request that names one writes nothing
C7_PastTimeRejected ==
    [][/\ \A p \in Procs : \A k \in DOMAIN offered'[p] :
            (offered'[p] # offered[p] /\ offered'[p][k].date = Today)
            => offered'[p][k].start_time > now
       /\ \A p \in Procs :
            (pc[p] = "insert" /\ pc'[p] = "idle" /\ req[p].past_at_start)
            => bookings' = bookings]_vars

\* C8: on a date whose business hours are closed or not configured no slot is
\* offered and no booking is written
C8_ClosedDayFailSafe ==
    /\ \A p \in Procs : \A k \in DOMAIN offered[p] : ~HoursClosed(offered[p][k].date)
    /\ \A i \in BookingIds : ~HoursClosed(bookings[i].booking_date)

\* C9: a book request whose interval overlaps an occupying booking of the same
\* stylist and date is rejected by its availability check, and the call leaves
\* the bookings table as it is
C9_OverlapRejectedNoWrite ==
    [][\A p \in Procs :
          (pc[p] = "check" /\ pc'[p] # "check" /\ BookConflict(p))
          => /\ pc'[p] = "idle"
             /\ result'[p] = "just_booked"
             /\ wrote'[p] = 0
             /\ bookings' = bookings]_vars

\* the second call was a book request turned away against the only booking
C9_Witness ==
    \E p \in Procs :
        /\ agent = "salon" /\ calls = 2
        /\ pc[p] = "idle" /\ result[p] = "just_booked" /\ wrote[p] = 0
        /\ Len(bookings) = 1 /\ Occupying(bookings[1])

\* C10: the overlap rejection of a book request is the race-lost message exactly
\* when the slot was free as the request started
C10_DistinctRejections ==
    [][\A p \in Procs :
          (pc[p] = "check" /\ pc'[p] = "idle")
          => (result'[p] = "just_booked" <=> ~req[p].taken_at_start)]_vars

\* the answers that tell the caller about the domain rather than about a failure
DomainAnswers ==
    {"stylist_not_found", "service_not_found", "no_openings", "slots", "no_bookings",
     "found", "booking_not_found", "just_booked", "confirmed", "cancelled",
     "rescheduled"}

\* C11: a tool call that ends while the database is unavailable ends with the
\* try-again answer, never with an answer about stylists, openings or bookings
C11_OutageGivesTryAgain ==
    [][\A p \in Procs :
          (~db_up /\ ~db_up' /\ pc'[p] = "idle" /\ (pc[p] # "idle" \/ calls' # calls))
              => result'[p] \notin DomainAnswers]_vars

\* the members of a sequence
Range(q) == {q[k] : k \in DOMAIN q}

\* C12: a reschedule that succeeded on a booking that was occupying kept the
\* row count, gave the row its new date and time, left it occupying and left it
\* in the customer's list of upcoming bookings
C12_RescheduleInPlace ==
    [][\A p \in Procs :
          /\ (pc[p] = "reschedule_update" /\ result'[p] = "rescheduled"
                /\ Occupying(bookings[req[p].booking_id]))
                => /\ Len(bookings') = Len(bookings)
                   /\ bookings'[req[p].booking_id].booking_date = req[p].date
                   /\ bookings'[req[p].booking_id].start_time = req[p].start_time
                   /\ Occupying(bookings'[req[p].booking_id])
                   /\ \A ph \in {req[p].phone}, id \in {req[p].booking_id} :
                         \A list \in FindCustomerBookings(ph)' : id \in Range(list)
          /\ (pc[p] = "h_reschedule_update" /\ result'[p] = "rescheduled"
                /\ appointment[req[p].app_id].app_status = "Booked"
                /\ appointment' # appointment)
                => /\ Len(appointment') = Len(appointment)
                   /\ appointment'[req[p].app_id].date = req[p].date
                   /\ appointment'[req[p].app_id].time = req[p].start_time
                   /\ \A id \in {req[p].app_id} :
                         \A apps \in FindUpcomingAppointments(CallerIdentity(p))' :
                            id \in Range(apps)]_vars

\* a step in which p starts a cancel call (no other call of SpecRepeat can end
\* with booking_not_found)
CancelStarts(p) ==
    /\ pc[p] = "idle"
    /\ calls' # calls
    /\ \/ pc'[p] \in {"cancel_update", "h_cancel_update"}
       \/ result'[p] = "booking_not_found"

\* C13: when the caller repeats the cancel request that has just succeeded
\* (same phone, same index), the call is not refused and it is aimed at no
\* booking other than the one already cancelled
C13_CancelIdempotent ==
    [][\A p \in Procs :
          (result[p] = "cancelled" /\ CancelStarts(p))
              => /\ result'[p] # "booking_not_found"
                 /\ pc'[p] = "cancel_update" => req'[p].booking_id = wrote[p]
                 /\ pc'[p] = "h_cancel_update" => req'[p].app_id = wrote[p]]_vars

\* the occupying bookings of a stylist and date, other than the excluded one,
\* that overlap [start, end)
OverlappingOthers(s, d, start, end, ex) ==
    {i \in BookingIds :
        /\ i # ex
        /\ bookings[i].stylist_id = s
        /\ bookings[i].booking_date = d
        /\ Occupying(bookings[i])
        /\ Overlaps(bookings[i], start, end)}

\* C14: check_slot_available answers false exactly when an occupying booking of
\* the stylist and date, other than the excluded one, overlaps [start, end);
\* _is_slot_available does the same over the rows it is given
C14_AvailableIffNoOverlap ==
    \A s \in Stylists, d \in Dates, t \in Times, dur \in {30, 45},
       ex \in 0 .. MaxBookings :
        /\ CheckSlotAvailable(s, d, t, t + dur, ex)
              <=> OverlappingOthers(s, d, t, t + dur, ex) = {}
        /\ LET rows == {bookings[i] : i \in
                           {j \in BookingIds : /\ bookings[j].stylist_id = s
                                               /\ bookings[j].booking_date = d}}
           IN  IsSlotAvailable(Combine(d, t), Combine(d, t + dur), rows)
                  <=> \A b \in rows : ~Overlaps(b, t, t + dur)

\* the time-of-day windows a slot search is asked for
SearchWindows ==
    {TimeWindow(tq) : tq \in Wide.queries}

\* [start, start + duration) is a slot of the effective window [es, ee)
SlotOfWindow(start, duration, es, ee) ==
    /\ es < ee
    /\ start >= es
    /\ (start - es) % 30 = 0
    /\ start + duration <= ee

\* C15: every slot get_slots_in_range returns for a stylist starts on a
\* 30-minute step of the intersection of business hours, the stylist's shift
\* and the asked window, ends within it and overlaps no occupying booking of
\* the stylist; a closed or unconfigured day has no window and no slot
C15_SlotsInEffectiveWindow ==
    \A s \in Stylists, d \in Dates, w \in SearchWindows, dur \in Wide.durations :
        \A slots \in GetSlotsInRange(d, w[1], w[2], dur, s) :
            \A k \in DOMAIN slots :
                /\ \E h \in SalonHoursRows, sh \in StylistAvailability :
                      /\ h.date = d
                      /\ ~h.is_closed
                      /\ sh.date = d
                      /\ sh.stylist_id = s
                      /\ SlotOfWindow(slots[k].start_time, dur,
                                      Max(Max(h.open_time, sh.start_time), w[1]),
                                      Min(Min(h.close_time, sh.end_time), w[2]))
                /\ OverlappingOthers(s, d, slots[k].start_time,
                                     slots[k].start_time + dur, 0) = {}

\* C16: what find_availability names is at most three start times, in
\* ascending order of time
C16_SuggestionsCappedAscending ==
    \A p \in Procs :
        /\ Len(offered[p]) <= 3
        /\ \A i, j \in DOMAIN offered[p] :
              i < j => offered[p][i].start_time <= offered[p][j].start_time

\* date d at time t is at or after the present moment
AtOrAfterNow(d, t) == d > Today \/ (d = Today /\ t >= now)

\* C17: the list of a customer's bookings holds only that customer's occupying
\* bookings at or after now, in ascending order of date and time, at most 5
C17_UpcomingOnly ==
    /\ \A ph \in Phones : \A list \in FindCustomerBookings(ph) :
          /\ Len(list) <= 5
          /\ \A k \in DOMAIN list :
                /\ customers[bookings[list[k]].customer_id] = ph
                /\ Occupying(bookings[list[k]])
                /\ AtOrAfterNow(bookings[list[k]].booking_date,
                                bookings[list[k]].start_time)
          /\ \A i, j \in DOMAIN list :
                i < j => Combine(bookings[list[i]].booking_date,
                                 bookings[list[i]].start_time)
                         <= Combine(bookings[list[j]].booking_date,
                                    bookings[list[j]].start_time)
    /\ \A p \in Procs : \A apps \in FindUpcomingAppointments(CallerIdentity(p)) :
          /\ Len(apps) <= 5
          /\ \A k \in DOMAIN apps :
                /\ appointment[apps[k]].app_status = "Booked"
                /\ AtOrAfterNow(appointment[apps[k]].date, appointment[apps[k]].time)

\* stylist st has a service whose name holds the word
CanPerform(st, word) ==
    \E x \in StylistServices :
        x[1] = st /\ ServiceActive(x[2]) /\ Like(ServiceName(x[2]), word)

\* C18: for every list of requested services the multi-service search returns
\* exactly the active stylists who can perform each of them, and nothing for
\* the empty list
C18_AllServicesIntersection ==
    \A services \in ServiceLists :
        GetStylistsForMultipleServices(services) =
            IF services = <<>>
            THEN {}
            ELSE {st \in Stylists :
                     /\ StylistActive(st)
                     /\ \A k \in DOMAIN services : CanPerform(st, services[k])}

\* the stylists in ascending order of name: Lee, Leeson
StylistsByName == <<1, 2>>

\* the first of the stylists S in ascending order of name
FirstByName(S) ==
    {StylistsByName[k] : k \in
        {i \in DOMAIN StylistsByName :
            /\ StylistsByName[i] \in S
            /\ \A j \in 1 .. (i - 1) : StylistsByName[j] \notin S}}

\* C19: the stylist a booking request is resolved to is the first, in ascending
\* order of name, of the active stylists whose name holds the fragment
C19_FirstMatchByName ==
    \A p \in Procs :
        (agent = "salon" /\ req[p].op = "book")
            => req[p].stylist_id \in
                  FirstByName({s \in Stylists :
                                  StylistActive(s)
                                  /\ Like(StylistName(s), req[p].stylist_name)})

\* C20: the hospital book_appointment call that reaches its INSERT answers
\* with the confirmation exactly when the call inserted an appointment row
C20_ConfirmationIffInserted ==
    [][\A p \in Procs :
          (pc[p] = "h_insert" /\ pc'[p] = "idle")
              => (result'[p] = "confirmed" <=> Len(appointment') = Len(appointment) + 1)]_vars

\* C21: every stored booking ends after it starts
C21_EndAfterStart ==
    \A i \in BookingIds : bookings[i].end_time > bookings[i].start_time

\* what the availability tools answer
AvailabilityAnswers ==
    {"slots", "no_openings", "doctor_slots", "fully_booked", "none_in_range",
     "no_office_hours"}

C23_HealthCheckAccuracy ==
    health # NoHealth =>
        /\ health.status \in {"healthy", "unhealthy"}
        /\ health.status = "healthy" <=> \A c \in Components : probe[c] = "healthy"
        /\ DOMAIN health.checks = Components
        /\ \A c \in Components :
              health.checks[c].healthy <=> probe[c] = "healthy"
        /\ status_code # 0 => (status_code = 200 <=> health.status = "healthy")
        /\ status_code \in {0, 200, 503}

\* a check in which one component raised and the others were healthy, with
\* the status code computed
C23_Witness ==
    /\ health # NoHealth
    /\ \E c \in Components :
          /\ probe[c] = "raised"
          /\ \A o \in Components \ {c} : probe[o] = "healthy"
    /\ status_code = 503

C25_AttemptsLimited ==
    /\ \A e \in Emails : otp_log[e].wrong <= MaxAttempts
    /\ otp_call.answer =>
          /\ otp_call.failed_before < MaxAttempts
          /\ ~otp_call.verified_before

\* the issued code is refused after MaxAttempts failures
C25_Witness ==
    /\ otp_call.email \in Emails
    /\ ~otp_call.answer
    /\ otp_call.user_otp = otp_log[otp_call.email].issued
    /\ otp_call.failed_before >= MaxAttempts
    /\ otp_log[otp_call.email].wrong = MaxAttempts

\* the code that was verified is refused the second time
C25_WitnessConsumed ==
    /\ otp_call.email \in Emails
    /\ ~otp_call.answer
    /\ otp_call.verified_before
    /\ otp_call.user_otp = otp_log[otp_call.email].issued

\* the list holds the most recent min(n, limit) of the n entries recorded
\* for its key, oldest first
MostRecent(list, n, limit) ==
    /\ Len(list) = Min(n, limit)
    /\ \A i \in 1 .. Len(list) : list[i].value = n - Len(list) + i

\* C26: the collector holds at most 100 latencies per operation and 50 events
\* per type, and they are the most recent ones in recording order
C26_HistoryLimited ==
    /\ \A o \in Operations :
          /\ Len(EntriesOf(metrics.latency, o)) <= LatencyLimit
          /\ MostRecent(EntriesOf(metrics.latency, o), recorded.latency[o], LatencyLimit)
    /\ \A t \in EventTypes :
          /\ Len(EntriesOf(metrics.events, t)) <= EventLimit
          /\ MostRecent(EntriesOf(metrics.events, t), recorded.events[t], EventLimit)

\* both histories were trimmed
C26_Witness ==
    /\ \E o \in Operations :
          /\ recorded.latency[o] > LatencyLimit
          /\ Len(metrics.latency[o]) = LatencyLimit
    /\ \E t \in EventTypes :
          /\ recorded.events[t] > EventLimit
          /\ Len(metrics.events[t]) = EventLimit

\* C27: no two appointments of one doctor whose status is neither Cancelled
\* nor NoShow have the same date and time
C27_DoctorTimeUnique ==
    \A i, j \in AppIds :
        (/\ i # j
         /\ appointment[i].doc_id = appointment[j].doc_id
         /\ appointment[i].date = appointment[j].date
         /\ appointment[i].time = appointment[j].time)
        => \/ appointment[i].app_status \in {"Cancelled", "NoShow"}
           \/ appointment[j].app_status \in {"Cancelled", "NoShow"}

\* an insert for a taken doctor and time was refused: the call wrote no row
C27_Witness ==
    /\ agent = "hospital"
    /\ \E p \in Procs :
          /\ result[p] = "went_wrong"
          /\ wrote[p] = 0
    /\ \E i \in AppIds : appointment[i].app_status \notin {"Cancelled", "NoShow"}

\* C28: check_slot_available answers true only when its conflict query was
\* executed and counted no occupying booking overlapping the interval
C28_TrueOnlyIfEvaluated ==
    \A s \in Stylists, d \in Dates, t \in Times, ex \in 0 .. MaxBookings :
        CheckSlotAvailable(s, d, t, t + DefaultDuration, ex)
        => /\ db_up
           /\ OverlappingOthers(s, d, t, t + DefaultDuration, ex) = {}

\* C29: a cancel or reschedule call that ends with its success answer has
\* applied its update: the targeted row is cancelled, or holds the new values
C29_SuccessOnlyIfApplied ==
    [][\A p \in Procs :
          /\ (pc[p] = "cancel_update" /\ result'[p] = "cancelled")
                => bookings'[req[p].booking_id].status = "cancelled"
          /\ (pc[p] = "reschedule_update" /\ result'[p] = "rescheduled")
                => /\ bookings'[req[p].booking_id].booking_date = req[p].date
                   /\ bookings'[req[p].booking_id].start_time = req[p].start_time
                   /\ bookings'[req[p].booking_id].end_time = req[p].end_time
          /\ (pc[p] = "h_cancel_update" /\ result'[p] = "cancelled")
                => appointment'[req[p].app_id].app_status = "Cancelled"
          /\ (pc[p] = "h_reschedule_update" /\ result'[p] = "rescheduled")
                => /\ appointment'[req[p].app_id].doc_id = req[p].doc_id
                   /\ appointment'[req[p].app_id].date = req[p].date
                   /\ appointment'[req[p].app_id].time = req[p].start_time]_vars

\* C30: a call of initialize makes at most max_retries attempts; it returns True
\* exactly when its pool passed the test query, or the connection was
\* initialized already and no pool was created, and then is_connected holds;
\* when it returns False after its last attempt the pool is None and
\* is_connected is false
C30_InitializeOutcome ==
    \A k \in InitCallers :
        /\ init_task[k].attempt <= init_task[k].max_retries
        /\ init_ret[k].attempts <= init_ret[k].max_retries
        /\ init_ret[k].value = "True"
              => /\ init_ret[k].connected
                 /\ IF init_ret[k].was_initialized
                    THEN init_ret[k].created = 0
                    ELSE init_ret[k].tested
        /\ (init_ret[k].value = "False" /\ init_ret[k].attempts > 0)
              => /\ init_ret[k].attempts = init_ret[k].max_retries
                 /\ init_ret[k].pool = 0
                 /\ ~init_ret[k].connected

\* C31: a cancelled booking stays cancelled: no step changes the status of a
\* cancelled salon booking or of a Cancelled hospital appointment
C31_CancelledIsTerminal ==
    [][/\ \A i \in BookingIds :
             bookings[i].status = "cancelled" => bookings'[i].status = "cancelled"
       /\ \A i \in AppIds :
             appointment[i].app_status = "Cancelled"
                => appointment'[i].app_status = "Cancelled"]_vars

\* C32: the booking a cancel or reschedule call modifies for index N is the
\* booking announced as Number N in the last listing for that phone
C32_IndexStable ==
    [][\A p \in Procs :
          (/\ pc[p] \in {"cancel_update", "reschedule_update"}
           /\ bookings' # bookings
           /\ req[p].booking_index <= Len(announced[req[p].phone]))
          => announced[req[p].phone][req[p].booking_index] = req[p].booking_id]_vars

\* C33: a cancel or reschedule call changes only bookings of the customer its
\* contact handle identifies (the phone of the call in the salon, the caller
\* identity in the hospital), and a call turned away for its index changes none
C33_Ownership ==
    [][\A p \in Procs :
          /\ (pc[p] \in {"cancel_update", "reschedule_update"} /\ pc'[p] = "idle")
                => \A i \in BookingIds :
                      bookings'[i] # bookings[i]
                         => customers[bookings[i].customer_id] = req[p].phone
          /\ (pc[p] \in {"h_cancel_update", "h_reschedule_update"} /\ pc'[p] = "idle")
                => \A i \in AppIds :
                      appointment'[i] # appointment[i]
                         => patient_account[appointment[i].account_id] = CallerIdentity(p)
          /\ (pc[p] = "idle" /\ result'[p] = "booking_not_found"
                /\ result[p] # "booking_not_found")
                => /\ bookings' = bookings
                   /\ appointment' = appointment]_vars

\* a call cancelled a booking of its customer while another customer holds an
\* untouched booking
C33_Witness ==
    /\ agent = "salon"
    /\ \E p \in Procs :
          /\ pc[p] = "idle" /\ result[p] = "cancelled" /\ wrote[p] # 0
          /\ bookings[wrote[p]].status = "cancelled"
          /\ \E j \in BookingIds :
                /\ bookings[j].customer_id # bookings[wrote[p]].customer_id
                /\ bookings[j].status = "confirmed"

\* C34: no contact handle has two customer records (salon) or two patient
\* accounts (hospital), and a call that went through get-or-create holds the
\* identifier of a record of its handle
C34_OneRecordPerHandle ==
    /\ \A c1, c2 \in 1 .. Len(customers) :
          customers[c1] = customers[c2] => c1 = c2
    /\ \A a1, a2 \in 1 .. Len(patient_account) :
          patient_account[a1] = patient_account[a2] => a1 = a2
    /\ \A p \in Procs :
          /\ pc[p] = "insert"
                => /\ req[p].customer_id \in 1 .. Len(customers)
                   /\ customers[req[p].customer_id] = req[p].phone
          /\ pc[p] = "h_patient_select"
                => /\ req[p].account_id \in 1 .. Len(patient_account)
                   /\ patient_account[req[p].account_id] = req[p].phone

\* C35: every booking of the salon agent ends its service's duration after
\* its start
C35_EndIsStartPlusDuration ==
    agent = "salon" =>
        \A i \in BookingIds :
            bookings[i].end_time - bookings[i].start_time
                = ServiceDuration(bookings[i].service_id)

\* C36: every slot a check_doctor_availability answer offers starts on the hour
\* or half-hour, and its 30 minutes overlap the 30 minutes of no appointment
\* that the availability query counts for that doctor and date
C36_OfferedSlotsBookable ==
    [][\A p \in Procs :
          (pc[p] = "idle" /\ calls' = calls + 1 /\ result'[p] = "doctor_slots")
          => \A k \in DOMAIN offered'[p] :
                LET sl == offered'[p][k]
                IN  /\ (sl.start_time % 60) \in {0, 30}
                    /\ \A i \in AppIds :
                          (/\ appointment[i].doc_id = sl.doc_id
                           /\ appointment[i].date = sl.date
                           /\ appointment[i].app_status
                                 \notin {"Cancelled", "NoShow", "Rescheduled"})
                          => ~(/\ appointment[i].time < sl.start_time + 30
                               /\ appointment[i].time + 30 > sl.start_time)]_vars

\* C37: a check_doctor_availability answer offers no time at which the doctor
\* has an appointment that the unique index counts, i.e. one whose status is
\* neither Cancelled nor NoShow, such as an appointment rescheduled to that time
C37_RescheduledTimeNotOffered ==
    [][\A p \in Procs :
          (pc[p] = "idle" /\ calls' = calls + 1 /\ result'[p] = "doctor_slots")
          => \A k \in DOMAIN offered'[p] :
                ~\E i \in AppIds :
                    /\ appointment[i].doc_id = offered'[p][k].doc_id
                    /\ appointment[i].date = offered'[p][k].date
                    /\ appointment[i].time = offered'[p][k].start_time
                    /\ appointment[i].app_status \notin {"Cancelled", "NoShow"}]_vars

\* C38: concurrent initialize calls create and keep at most one pool: no two
\* calls each created a pool that passed its test query
C38_SinglePool ==
    Cardinality({k \in InitCallers :
                    /\ init_ret[k].value = "True"
                    /\ init_ret[k].tested
                    /\ init_ret[k].created > 0}) <= 1

\* the start times of the 30-minute grid of the window [es, ee)
GridStarts(es, ee) ==
    IF es < ee THEN {es + SlotStep * n : n \in 0 .. ((ee - es) \div SlotStep)} ELSE {}

\* C39: the two overlap tests agree on one ledger: every slot
\* get_slots_in_range returns for a duration is accepted by check_slot_available
\* for [start, start + duration), and every grid slot of the effective window of
\* a stylist's shift that it leaves out is rejected by check_slot_available
C39_OverlapTestsAgree ==
    \A s \in Stylists, d \in Dates, w \in SearchWindows, dur \in Wide.durations :
        \A slots \in GetSlotsInRange(d, w[1], w[2], dur, s) :
            /\ \A k \in DOMAIN slots :
                  CheckSlotAvailable(slots[k].stylist_id, d, slots[k].start_time,
                                     slots[k].start_time + dur, 0)
            /\ \A sh \in StylistAvailability :
                  (sh.date = d /\ sh.stylist_id = s /\ StylistActive(s))
                      => \A t \in GridStarts(Max(sh.start_time, w[1]),
                                             Min(sh.end_time, w[2])) :
                            (/\ SlotOfWindow(t, dur, Max(sh.start_time, w[1]),
                                             Min(sh.end_time, w[2]))
                             /\ ~\E k \in DOMAIN slots :
                                   /\ slots[k].stylist_id = s
                                   /\ slots[k].start_time = t)
                                => ~CheckSlotAvailable(s, d, t, t + dur, 0)

====
